---- MODULE Spec2Model ----
\* contagent: the session orchestrator (main.go run), the cleanup manager
\* (internal.CleanupManager), the loopback git server handle, the docker
\* container handle and the terminal bridge, as one state machine.
\*
\*   Spec        one run of the orchestrator, with its goroutines and the
\*               environment (signals, engine, host terminal)
\*   SpecLedger  a CleanupManager driven by several concurrent callers
EXTENDS Integers, Sequences, FiniteSets, TLC

VARIABLES
    \* ---- internal.CleanupManager
    funcs,        \* m.funcs: sequence of cleanupFunc {name, fn}
    mu,           \* m.mu: the set of goroutines holding it (empty or one)
    task,         \* per goroutine: position inside Add / Execute
    invoked,      \* history: names of the release actions called, in order
    logged,       \* history: names logged by "cleanup failed for ..."
    pushed,       \* history: names in the order Add stored them
    pushCalls,    \* number of Add calls made by the callers of SpecLedger
    execCalls,    \* number of Execute calls made by the callers of SpecLedger
    execDone,     \* number of Execute calls that returned
    \* ---- main.run
    pc,           \* position of run
    began,        \* history: the steps run has begun, in order
    retErr,       \* the error run returns (NoError = nil)
    failure,      \* history: the step that failed and its cause
    ctx,          \* the session context: "active" or "canceled"
    sigChan,      \* run's signal channel (capacity 1): signals buffered
    sigListener,  \* run's signal goroutine: "waiting" or "done"
    signals,      \* number of SIGINT/SIGTERM raised so far
    \* ---- docker.Container.Wait
    waitSigChan,  \* Wait's signal channel: "unregistered", "empty", "full"
    waitChan,     \* engine wait channels: "none", "pending", "result",
                  \* "canceled", "engine"
    stopRequests, \* number of ContainerStop requests issued
    waitCase,     \* the case that woke the blocked select: "none", "error",
                  \* "result", "signal"
    waitTaken,    \* history: the case of the select that Wait executed
    sigPending,   \* channels the signal being processed is still to be sent to
    sigInWait,    \* history: a signal was raised while Wait was blocked
    exitCode,     \* the status code the container's command exited with
    sink,         \* what Wait wrote to the internal.Writer, in order
    \* ---- resources
    listener,     \* loopback TCP listener: "none", "open", "closed"
    serving,      \* the server.Serve goroutine is running
    dockerClient, \* engine client: "none", "open", "closed"
    container,    \* "none", "created", "running", "exited", "removed"
    archive,      \* snapshot stream reader: "none", "open", "closed"
    copied,       \* the snapshot was copied into the container
    \* ---- docker.Container.Attach
    stdinRaw,     \* host stdin is in raw mode
    stdoutRaw,    \* host stdout is in raw mode
    restored,     \* the sync.OnceFunc restore has run
    conn,         \* attached connection: "none", "open", "closed"
    copyIn,       \* stdin copy task: "none", "running", "done"
    copyOut,      \* output copy task: "none", "running", "done"
    copyLog,      \* history: per finished copy task, what its io.Copy returned,
                  \* whether it warned, what it returned to the errgroup
    restoreCalls, \* number of calls of the sync.OnceFunc restore
    restoreRuns,  \* number of executions of the function inside it
    stopLog,      \* history: per ContainerStop request, its timeout and
                  \* whether the container's release action was already called
    warnings,     \* the w.Warningf calls of Attach and its tasks, in order
    \* ---- docker.TTY
    monitorErr,   \* what Monitor's first Resize returned, "none" before it
    retryPc,      \* the retry goroutine: "none", "select", "done"
    retry,        \* its loop variable
    retryErr,     \* its err variable
    attempts,     \* history: its Resize attempts, with the timer of each
    fatal,        \* the writer.Fatalf calls, in order
    winch,        \* the SIGWINCH goroutine: "none", "listening", "resized"
                  \* (listening, and has handled a SIGWINCH), "stopped"
    \* ---- git.CreateArchive
    repo,         \* the source repository: .git members, index, worktree, config
    tmp,          \* the temporary checkout the archive closure works in
    entries,      \* the tar entries written to the pipe, in order
    apc,          \* position of CreateArchive and of its archive closure
    queue,        \* what filepath.Walk / the ls-files scanner still has to visit
    aret,         \* what CreateArchive returned: "none", "reader", "error"
    aerr,         \* the step whose error CreateArchive or the closure returned
    scratch,      \* the temporary directory: "none", "exists", "removed"
    pw,           \* the pipe's write end: "none", "open", "closed",
                  \* "closed with error"
    pwErr,        \* the error given to pw.CloseWithError
    tw,           \* the tar writer: "none", "open", "closed", "close failed"
    reader,       \* the consumer's archiveCloser: "none", "reading", "closed"
                  \* (by the consumer), "EOF", "error"
    readErr,      \* the error its last Read returned
    \* ---- docker.Client.BuildImage
    records,      \* the build records of the engine's response body
    bpc,          \* position of BuildImage: "idle", "loop", "done"
    bpos,         \* number of records the decoder has consumed
    bctx,         \* the context passed to BuildImage: "active", "canceled"
    cancelAt,     \* history: bpos when the context was cancelled, -1 if not
    bsink,        \* the arguments of the w.Print calls, in order
    result,       \* what BuildImage returned
    \* ---- internal.ParseConfig
    cargs,        \* args: the command line after the program name
    cenv,         \* environment: the host environment, as KEY=VALUE strings
    cpc,          \* position of ParseConfig: "idle", "parse", "build", "done"
    fsArgs,       \* fs.args: the arguments the flag set has not consumed
    additionalEnv,\* the --env values collected so far
    volumes,      \* the --volume values collected so far
    dockerfilePath, \* the --dockerfile value
    network,      \* the --network value
    config,       \* the Config that ParseConfig returns
    \* ---- internal.Session
    sid,          \* Session.id, -1 before GenerateSession
    snames,       \* history: the strings ID() and String() returned
    sbranches,    \* history: the strings Branch() returned
    \* ---- several contagent processes on one engine
    engine,       \* the engine's containers, in the order of their creation
    sessions      \* per process: its position in run, its session and ledger

lvars == <<funcs, mu, task, invoked, logged, pushed, pushCalls, execCalls, execDone>>
rvars == <<pc, began, retErr, failure, ctx, sigChan, sigListener, signals>>
wvars == <<waitSigChan, waitChan, stopRequests, waitCase, waitTaken, sigPending,
           sigInWait, exitCode, sink>>
evars == <<listener, serving, dockerClient, container, archive, copied>>
tvars == <<stdinRaw, stdoutRaw, restored, conn, copyIn, copyOut>>
kvars == <<copyLog, restoreCalls, restoreRuns>>
yvars == <<monitorErr, retryPc, retry, retryErr, attempts, fatal, winch>>
mvars == <<kvars, stopLog, warnings, yvars>>
avars == <<repo, tmp, entries, apc, queue>>
gvars == <<aret, aerr, scratch, pw, pwErr, tw, reader, readErr>>
bvars == <<records, bpc, bpos, bctx, cancelAt, bsink, result>>
cvars == <<cargs, cenv, cpc, fsArgs, additionalEnv, volumes, dockerfilePath,
           network, config>>
svars == <<sid, snames, sbranches>>
xvars == <<engine, sessions>>
pvars == <<avars, gvars, bvars, cvars, svars, xvars>>
qvars == <<mvars, pvars>>
vars == <<lvars, rvars, wvars, evars, tvars, mvars, pvars>>
notArchive == <<lvars, rvars, wvars, evars, tvars, mvars, bvars, cvars, svars,
               xvars>>
notBuild == <<lvars, rvars, wvars, evars, tvars, mvars, avars, gvars,
              cvars, svars, xvars>>
notConfig == <<lvars, rvars, wvars, evars, tvars, mvars, avars, gvars,
              bvars, svars, xvars>>
notSession == <<lvars, rvars, wvars, evars, tvars, mvars, avars, gvars,
              bvars, cvars, xvars>>
notSessions == <<lvars, rvars, wvars, evars, tvars, mvars, avars, gvars,
                 bvars, cvars, svars>>

\* ---------------------------------------------------------------- bounds
MaxSignals == 1
MaxPush == 3
MaxExec == 2
MaxRecords == 3
MaxArgs == 4
MaxEnv == 3
NumCallers == 2
TTYRetries == 2
NumSessions == 2

\* goroutine 0 is main (run); 1..NumCallers are the callers of SpecLedger
Callers == 1..NumCallers
Goroutines == 0..NumCallers

\* ------------------------------------------------------------- helpers
Reverse(s) == [i \in 1..Len(s) |-> s[Len(s) + 1 - i]]

IsPrefix(s, t) == Len(s) <= Len(t) /\ SubSeq(t, 1, Len(s)) = s

Names(fs) == [i \in 1..Len(fs) |-> fs[i].name]

Occurrences(s, x) == Cardinality({i \in 1..Len(s) : s[i] = x})

Last(s) == s[Len(s)]

\* ----------------------------------------------- internal.CleanupManager
cleanupFunc(name, fn) == [name |-> name, fn |-> fn]

NoFunc == cleanupFunc("", "")

\* what the callers of SpecLedger register: a release action that returns nil,
\* one that returns an error, one that itself calls m.Add
CallerFns == {"nil", "error", "Add"}

IdleTask == [pc |-> "idle", entry |-> NoFunc, ret |-> "idle", read |-> <<>>,
             iter |-> <<>>, idx |-> 0]

AddFuncsAppend(fs, e) == fs \o <<e>>

\* m.funcs = append([]cleanupFunc{{name, fn}}, m.funcs...)
AddFuncs(fs, e) == <<e>> \o fs

RangeFuncsBackward(fs) == Reverse(fs)

\* for _, cleanup := range m.funcs
RangeFuncs(fs) == fs

NextIndexBreak(i, failed, n) == IF failed THEN n + 1 ELSE i + 1

\* the loop goes on to the next entry whether or not cleanup.fn() failed
NextIndex(i, failed, n) == i + 1

LockableAlways(m) == TRUE

\* sync.Mutex: Lock() returns only when no goroutine holds the mutex
Lockable(m) == m = {}

\* m.mu.Lock() of Add
AddLock(t) ==
    /\ task[t].pc = "Add_lock"
    /\ Lockable(mu)
    /\ mu' = {t}
    /\ task' = [task EXCEPT ![t].pc = "Add_read"]
    /\ UNCHANGED <<funcs, invoked, logged, pushed, pushCalls, execCalls, execDone>>

\* the right-hand side of the assignment in Add reads m.funcs
AddRead(t) ==
    /\ task[t].pc = "Add_read"
    /\ task' = [task EXCEPT ![t].pc = "Add_body", ![t].read = funcs]
    /\ UNCHANGED <<funcs, mu, invoked, logged, pushed, pushCalls, execCalls, execDone>>

\* the assignment to m.funcs in Add and the deferred m.mu.Unlock()
AddBody(t) ==
    /\ task[t].pc = "Add_body"
    /\ funcs' = AddFuncs(task[t].read, task[t].entry)
    /\ pushed' = Append(pushed, task[t].entry.name)
    /\ mu' = {}
    /\ task' = [task EXCEPT ![t].pc = task[t].ret, ![t].entry = NoFunc,
                            ![t].ret = "idle", ![t].read = <<>>]
    /\ UNCHANGED <<invoked, logged, pushCalls, execCalls, execDone>>

\* m.mu.Lock() of Execute, and the evaluation of the range expression
ExecuteLock(t) ==
    /\ task[t].pc = "Execute_lock"
    /\ Lockable(mu)
    /\ mu' = {t}
    /\ task' = [task EXCEPT ![t].pc = "Execute_loop",
                            ![t].iter = RangeFuncs(funcs), ![t].idx = 1]
    /\ UNCHANGED <<funcs, invoked, logged, pushed, pushCalls, execCalls, execDone>>

\* cleanup.fn() is called: the release action starts to run
ExecuteCallFn(t) ==
    /\ task[t].pc = "Execute_loop"
    /\ task[t].idx <= Len(task[t].iter)
    /\ invoked' = Append(invoked, task[t].iter[task[t].idx].name)
    /\ task' = [task EXCEPT ![t].pc = "Execute_fn"]
    /\ UNCHANGED <<funcs, mu, logged, pushed, pushCalls, execCalls, execDone>>

CurrentFn(t) == task[t].iter[task[t].idx]

\* cleanup.fn() returned err: log if err != nil, then the next iteration
FnReturns(t, failed) ==
    /\ logged' = IF failed THEN Append(logged, CurrentFn(t).name) ELSE logged
    /\ task' = [task EXCEPT ![t].pc = "Execute_loop",
                            ![t].idx = NextIndex(task[t].idx, failed, Len(task[t].iter))]
    /\ UNCHANGED <<funcs, mu, invoked, pushed, pushCalls, execCalls, execDone>>

\* the loop is over: the deferred m.mu.Unlock() runs and Execute returns
ExecuteUnlock(t) ==
    /\ task[t].pc = "Execute_loop"
    /\ task[t].idx > Len(task[t].iter)
    /\ mu' = mu \ {t}
    /\ task' = [task EXCEPT ![t] = IdleTask]
    /\ execDone' = execDone + 1
    /\ UNCHANGED <<funcs, invoked, logged, pushed, pushCalls, execCalls>>

\* ---- the callers of SpecLedger
\* a caller calls m.Add(name, fn); the k-th call registers the name "k"
CallAdd(t, fn) ==
    /\ task[t].pc = "idle"
    /\ pushCalls < MaxPush
    /\ pushCalls' = pushCalls + 1
    /\ task' = [task EXCEPT ![t].pc = "Add_lock",
                            ![t].entry = cleanupFunc(ToString(pushCalls + 1), fn)]
    /\ UNCHANGED <<funcs, mu, invoked, logged, pushed, execCalls, execDone>>

\* a caller calls m.Execute()
CallExecute(t) ==
    /\ task[t].pc = "idle"
    /\ execCalls < MaxExec
    /\ execCalls' = execCalls + 1
    /\ task' = [task EXCEPT ![t].pc = "Execute_lock"]
    /\ UNCHANGED <<funcs, mu, invoked, logged, pushed, pushCalls, execDone>>

\* a release action returns nil: one that does nothing else, or the one that
\* called m.Add, after that Add returned
FnNil(t) ==
    /\ \/ task[t].pc = "Execute_fn" /\ CurrentFn(t).fn = "nil"
       \/ task[t].pc = "Execute_fnret"
    /\ FnReturns(t, FALSE)

\* a release action that returns an error
FnError(t) ==
    /\ task[t].pc = "Execute_fn"
    /\ CurrentFn(t).fn = "error"
    /\ FnReturns(t, TRUE)

\* a release action that calls m.Add on the ledger that is running it
FnAdd(t) ==
    /\ task[t].pc = "Execute_fn"
    /\ CurrentFn(t).fn = "Add"
    /\ pushCalls < MaxPush
    /\ pushCalls' = pushCalls + 1
    /\ task' = [task EXCEPT ![t].pc = "Add_lock", ![t].ret = "Execute_fnret",
                            ![t].entry = cleanupFunc(ToString(pushCalls + 1), "nil")]
    /\ UNCHANGED <<funcs, mu, invoked, logged, pushed, execCalls, execDone>>

InitLedger ==
    /\ funcs = <<>>
    /\ mu = {}
    /\ task = [t \in Goroutines |-> IdleTask]
    /\ invoked = <<>>
    /\ logged = <<>>
    /\ pushed = <<>>
    /\ pushCalls = 0
    /\ execCalls = 0
    /\ execDone = 0


\* --------------------------------------------------------------- main.run
\* nil
NoError == [step |-> "", cause |-> ""]

WrapNoCause(step, cause) == [step |-> step, cause |-> ""]

\* fmt.Errorf("failed to <step> ...: %w", err)
Wrap(step, cause) == [step |-> step, cause |-> cause]

\* the steps of run, in program order
StepOrder == <<"Getwd", "NewServer", "NewDefaultClient", "BuildImage",
               "CreateContainer", "CreateArchive", "CopyTo", "Start",
               "Attach", "Wait">>

StepIndex(step) == CHOOSE i \in 1..Len(StepOrder) : StepOrder[i] = step

NextStepStartEarly(step) ==
    IF step = "CreateArchive" THEN "Start"
    ELSE IF step = "Start" THEN "CopyTo"
    ELSE IF step = "CopyTo" THEN "Attach"
    ELSE IF step = "Wait" THEN "return"
    ELSE StepOrder[StepIndex(step) + 1]

\* where run goes when a step returned without error
NextStep(step) ==
    IF step = "Wait" THEN "return" ELSE StepOrder[StepIndex(step) + 1]

AfterErrorContinue(step) == NextStep(step)

\* if err != nil { return fmt.Errorf(...) }
AfterError(step) == "return"

\* an engine request made with a context: it fails when the context is
\* already cancelled, and may fail for the engine's own reasons otherwise
EngineOutcomes(c) == IF c = "canceled" THEN {"canceled"} ELSE {"ok", "engine"}

Begin(step) == began' = Append(began, step)

Succeed(step) ==
    /\ pc' = NextStep(step)
    /\ UNCHANGED <<retErr, failure>>

Fail(step, cause) ==
    /\ pc' = AfterError(step)
    /\ retErr' = Wrap(step, cause)
    /\ failure' = <<step, cause>>

\* cleanupMgr.Add(name, fn) called by run: no other goroutine uses the ledger
RunAdd(name, fn) ==
    /\ funcs' = AddFuncs(funcs, cleanupFunc(name, fn))
    /\ pushed' = Append(pushed, name)
    /\ UNCHANGED <<mu, task, invoked, logged, pushCalls, execCalls, execDone>>

\* run has not returned and nothing has ended the process
Alive == pc \notin {"done", "exit"}

\* in.RestoreTerminal(); out.RestoreTerminal()
RestoreTerminals ==
    /\ stdinRaw' = FALSE
    /\ stdoutRaw' = FALSE
    /\ restored' = TRUE
    /\ restoreRuns' = restoreRuns + 1

RestoreAlways ==
    /\ restoreCalls' = restoreCalls + 1
    /\ RestoreTerminals

\* the sync.OnceFunc restore: the function inside it runs on the first call
Restore ==
    /\ restoreCalls' = restoreCalls + 1
    /\ IF restored
       THEN UNCHANGED <<stdinRaw, stdoutRaw, restored, restoreRuns>>
       ELSE RestoreTerminals

\* os.Getwd()
Getwd ==
    /\ pc = "Getwd"
    /\ Begin("Getwd")
    /\ \E o \in {"ok", "os"} :
         IF o = "ok" THEN Succeed("Getwd") ELSE Fail("Getwd", o)
    /\ UNCHANGED <<lvars, ctx, sigChan, sigListener, signals, wvars, evars, tvars>>
    /\ UNCHANGED qvars

Digits == <<"0", "1", "2", "3", "4", "5", "6", "7", "8", "9">>

\* fmt's %d verb for a number that is not negative: its decimal digits
RECURSIVE Decimal(_)
Decimal(n) ==
    IF n < 10 THEN <<Digits[n + 1]>>
    ELSE Decimal(n \div 10) \o <<Digits[(n % 10) + 1]>>

\* the number a string of decimal digits denotes, -1 if it is not one
RECURSIVE ParseDecimal(_)
ParseDecimal(str) ==
    IF str = <<>> \/ \E i \in 1..Len(str) : \A k \in 1..10 : Digits[k] # str[i]
    THEN -1
    ELSE LET last == (CHOOSE k \in 1..10 : Digits[k] = str[Len(str)]) - 1
         IN IF Len(str) = 1 THEN last
            ELSE 10 * ParseDecimal(SubSeq(str, 1, Len(str) - 1)) + last

\* ports the system gives to a listener on 127.0.0.1:0
Ports == {1024, 40000, 65535}

\* listener.Addr().String() of a TCP listener on the loopback address
AddrString(port) == <<"1", "2", "7", ".", "0", ".", "0", ".", "1", ":">> \o Decimal(port)

\* the last colon of an address, 0 when it has none
LastColon(addr) ==
    LET at == {i \in 1..Len(addr) : addr[i] = ":"}
    IN IF at = {} THEN 0 ELSE CHOOSE i \in at : \A k \in at : k <= i

\* net.SplitHostPort(addr): the port part, <<>> standing for its error
SplitHostPort(addr) ==
    IF LastColon(addr) = 0 THEN <<>> ELSE SubSeq(addr, LastColon(addr) + 1, Len(addr))

\* the two steps after server.Serve was started: which of them fails for the
\* address of a listener on this port
PortOutcome(port) ==
    IF SplitHostPort(AddrString(port)) = <<>> THEN "split"
    ELSE IF ParseDecimal(SplitHostPort(AddrString(port))) # port THEN "parse"
    ELSE "ok"

\* what NewServer ends with when os.Stat, net.Listen and exec.LookPath gave o
ServerOutcomes(o) == IF o = "ok" THEN {PortOutcome(port) : port \in Ports} ELSE {o}

ListenerOpenedFirst(o) == o # "listen"

\* net.Listen succeeded: NewServer reaches it only after os.Stat found .git,
\* and no later error return closes the listener
ListenerOpened(o) == o \in {"ok", "git not found", "split", "parse"}

\* go server.Serve(listener) was reached: it comes before the port is parsed
Serving(o) == o \in {"ok", "split", "parse"}

\* git.NewServer and cleanupMgr.Add("git-server", remote.Close)
NewServer ==
    /\ pc = "NewServer"
    /\ Begin("NewServer")
    /\ \E e \in {"ok", "not a git repository", "listen", "git not found"} :
       \E o \in ServerOutcomes(e) :
         /\ listener' = IF ListenerOpened(o) THEN "open" ELSE listener
         /\ serving' = Serving(o)
         /\ IF o = "ok"
            THEN Succeed("NewServer") /\ RunAdd("git-server", "remote.Close")
            ELSE Fail("NewServer", o) /\ UNCHANGED lvars
    /\ UNCHANGED <<ctx, sigChan, sigListener, signals, wvars,
                   dockerClient, container, archive, copied, tvars>>
    /\ UNCHANGED qvars

\* docker.NewDefaultClient and cleanupMgr.Add("docker-client", ...)
NewDefaultClient ==
    /\ pc = "NewDefaultClient"
    /\ Begin("NewDefaultClient")
    /\ \E o \in {"ok", "env"} :
         IF o = "ok"
         THEN /\ Succeed("NewDefaultClient")
              /\ dockerClient' = "open"
              /\ RunAdd("docker-client", "client.Close")
         ELSE Fail("NewDefaultClient", o) /\ UNCHANGED <<lvars, dockerClient>>
    /\ UNCHANGED <<ctx, sigChan, sigListener, signals, wvars,
                   listener, serving, container, archive, copied, tvars>>
    /\ UNCHANGED qvars

\* client.BuildImage(ctx, ...)
BuildImage ==
    /\ pc = "BuildImage"
    /\ Begin("BuildImage")
    /\ \E o \in {"read Dockerfile"} \cup EngineOutcomes(ctx) :
         IF o = "ok" THEN Succeed("BuildImage") ELSE Fail("BuildImage", o)
    /\ UNCHANGED <<lvars, ctx, sigChan, sigListener, signals, wvars, evars, tvars>>
    /\ UNCHANGED qvars

\* client.CreateContainer(ctx, ...) and cleanupMgr.Add("container", ...)
CreateContainer ==
    /\ pc = "CreateContainer"
    /\ Begin("CreateContainer")
    /\ \E o \in EngineOutcomes(ctx) :
         IF o = "ok"
         THEN /\ Succeed("CreateContainer")
              /\ container' = "created"
              /\ RunAdd("container", "container.ForceRemove")
         ELSE Fail("CreateContainer", o) /\ UNCHANGED <<lvars, container>>
    /\ UNCHANGED <<ctx, sigChan, sigListener, signals, wvars,
                   listener, serving, dockerClient, archive, copied, tvars>>
    /\ UNCHANGED qvars

\* git.CreateArchive and cleanupMgr.Add("archive", archive.Close)
CreateArchive ==
    /\ pc = "CreateArchive"
    /\ Begin("CreateArchive")
    /\ \E o \in {"ok", "git"} :
         IF o = "ok"
         THEN /\ Succeed("CreateArchive")
              /\ archive' = "open"
              /\ RunAdd("archive", "archive.Close")
         ELSE Fail("CreateArchive", o) /\ UNCHANGED <<lvars, archive>>
    /\ UNCHANGED <<ctx, sigChan, sigListener, signals, wvars,
                   listener, serving, dockerClient, container, copied, tvars>>
    /\ UNCHANGED qvars

\* container.CopyTo(ctx, archive, "/")
CopyTo ==
    /\ pc = "CopyTo"
    /\ Begin("CopyTo")
    /\ \E o \in EngineOutcomes(ctx) :
         IF o = "ok"
         THEN Succeed("CopyTo") /\ copied' = TRUE
         ELSE Fail("CopyTo", o) /\ UNCHANGED copied
    /\ UNCHANGED <<lvars, ctx, sigChan, sigListener, signals, wvars,
                   listener, serving, dockerClient, container, archive, tvars>>
    /\ UNCHANGED qvars

\* container.Start(ctx)
Start ==
    /\ pc = "Start"
    /\ Begin("Start")
    /\ \E o \in EngineOutcomes(ctx) :
         IF o = "ok"
         THEN Succeed("Start") /\ container' = "running"
         ELSE Fail("Start", o) /\ UNCHANGED container
    /\ UNCHANGED <<lvars, ctx, sigChan, sigListener, signals, wvars,
                   listener, serving, dockerClient, archive, copied, tvars>>
    /\ UNCHANGED qvars


\* ---- container.Attach(ctx, w)
\* config.TTYRetries and config.RetryDelay (milliseconds), as main passes them
\* to CreateContainer and Attach passes them to NewTTY
RetryDelay == 10

\* w.Warningf("failed to resize tty: %v", err)
ResizeWarning(err) == [text |-> "failed to resize tty: %v", arg |-> err]

\* t.writer.Fatalf("failed to resize tty: %v", err)
FatalMessage(err) == [text |-> "failed to resize tty: %v", arg |-> err]

\* w.Warningf("stdin forwarding error: %v", err) and
\* w.Warningf("stdout/stderr forwarding error: %v", err)
CopyWarning(t, err) ==
    [text |-> IF t = "stdin" THEN "stdin forwarding error: %v"
              ELSE "stdout/stderr forwarding error: %v",
     arg |-> err]

\* out.GetTtySize(): a terminal of 0x0 or one with a size
TtySizes == {"zero", "sized"}

\* t.Resize(ctx) on a terminal of this size, o being what ContainerResize
\* returns: nil without a request for 0x0
ResizeError(size, o) ==
    IF size = "zero" THEN "nil" ELSE IF o = "ok" THEN "nil" ELSE o

\* what t.Resize(ctx) can return
Resize(c) == {ResizeError(size, o) : size \in TtySizes, o \in EngineOutcomes(c)}

\* out.GetTtySize() and the initial ContainerResize: a failure is a warning
AttachResize ==
    /\ pc = "Attach"
    /\ Begin("Attach")
    /\ \E o \in EngineOutcomes(ctx) :
         warnings' = IF o = "ok" THEN warnings
                     ELSE Append(warnings, ResizeWarning(o))
    /\ pc' = "Attach_Monitor"
    /\ UNCHANGED <<lvars, retErr, failure, ctx, sigChan, sigListener, signals,
                   wvars, evars, tvars>>
    /\ UNCHANGED <<kvars, stopLog, yvars>>
    /\ UNCHANGED pvars

MonitorErrorInitial(err) == err

\* what Monitor returns when its first Resize returned err: "return nil"
MonitorError(err) == "nil"

\* tty.Monitor(ctx): the first Resize, the retry goroutine when it failed,
\* signal.Notify(sigchan, SIGWINCH) and the goroutine that handles it
Monitor ==
    /\ pc = "Attach_Monitor"
    /\ \E err \in Resize(ctx) :
         IF MonitorError(err) = "nil"
         THEN /\ monitorErr' = err
              /\ retryPc' = IF err # "nil" THEN "select" ELSE "none"
              /\ winch' = "listening"
              /\ pc' = "Attach_stdinRaw"
              /\ UNCHANGED <<retErr, failure>>
         ELSE /\ monitorErr' = err
              /\ Fail("Attach", MonitorError(err))
              /\ UNCHANGED <<retryPc, winch>>
    /\ UNCHANGED <<lvars, began, ctx, sigChan, sigListener, signals, wvars, evars,
                   tvars>>
    /\ UNCHANGED <<kvars, stopLog, warnings, retry, retryErr, attempts, fatal>>
    /\ UNCHANGED pvars

AfterBase(r) == RetryDelay

\* time.After(time.Duration(retry+1) * t.retryDelay)
After(r) == (r + 1) * RetryDelay

\* for retry := range t.maxRetries
InRange(r) == r < TTYRetries

TimerBeatsAlways(c) == TRUE

\* the select of the retry goroutine takes the timer case when the timer
\* fires before ctx.Done() is closed: with the context already cancelled the
\* Done case is ready first, the delay being positive
TimerBeats(c) == c = "active"

\* the retry goroutine, case <-time.After(time.Duration(retry+1) * t.retryDelay)
RetryTimer ==
    /\ Alive
    /\ retryPc = "select"
    /\ InRange(retry)
    /\ TimerBeats(ctx)
    /\ retryPc' = "timer"
    /\ UNCHANGED <<lvars, rvars, wvars, evars, tvars>>
    /\ UNCHANGED <<kvars, stopLog, warnings, monitorErr, retry, retryErr, attempts, fatal, winch>>
    /\ UNCHANGED pvars

\* the retry goroutine in the timer case: err = t.Resize(ctx), return when it
\* is nil; after the last iteration, if err != nil { t.writer.Fatalf(...) },
\* and StandardWriter.Fatalf ends the process with os.Exit(1)
RetryAttempt ==
    /\ Alive
    /\ retryPc = "timer"
    /\ InRange(retry)
    /\ \E err \in Resize(ctx) :
         /\ attempts' = Append(attempts, [k |-> retry + 1, after |-> After(retry),
                                          err |-> err])
         /\ retryErr' = err
         /\ retry' = IF err = "nil" THEN retry ELSE retry + 1
         /\ retryPc' = IF err = "nil" \/ ~InRange(retry + 1) THEN "done" ELSE "select"
         /\ IF err # "nil" /\ ~InRange(retry + 1)
            THEN fatal' = Append(fatal, FatalMessage(err)) /\ pc' = "exit"
            ELSE UNCHANGED <<fatal, pc>>
    /\ UNCHANGED <<lvars, began, retErr, failure, ctx, sigChan, sigListener,
                   signals, wvars, evars, tvars>>
    /\ UNCHANGED <<kvars, stopLog, warnings, monitorErr, winch>>
    /\ UNCHANGED pvars

\* the retry goroutine, case <-ctx.Done(): return
RetryCtxDone ==
    /\ Alive
    /\ retryPc = "select"
    /\ InRange(retry)
    /\ ctx = "canceled"
    /\ retryPc' = "done"
    /\ UNCHANGED <<lvars, rvars, wvars, evars, tvars>>
    /\ UNCHANGED <<kvars, stopLog, warnings, monitorErr, retry, retryErr, attempts, fatal, winch>>
    /\ UNCHANGED pvars

\* tty.Monitor(ctx) when its first Resize returns nil: no retry goroutine
MonitorResized == Monitor /\ monitorErr' = "nil"

\* the SIGWINCH goroutine, case <-sigchan: _ = t.Resize(ctx)
WinchResize ==
    /\ Alive
    /\ winch = "listening"
    /\ winch' = "resized"
    /\ UNCHANGED <<lvars, rvars, wvars, evars, tvars>>
    /\ UNCHANGED <<kvars, stopLog, warnings, monitorErr,
                   retryPc, retry, retryErr, attempts, fatal>>
    /\ UNCHANGED pvars

\* the SIGWINCH goroutine, case <-ctx.Done(): return, deferred signal.Stop
WinchCtxDone ==
    /\ Alive
    /\ winch \in {"listening", "resized"}
    /\ ctx = "canceled"
    /\ winch' = "stopped"
    /\ UNCHANGED <<lvars, rvars, wvars, evars, tvars>>
    /\ UNCHANGED <<kvars, stopLog, warnings, monitorErr,
                   retryPc, retry, retryErr, attempts, fatal>>
    /\ UNCHANGED pvars

\* in.SetRawTerminal()
AttachStdinRaw ==
    /\ pc = "Attach_stdinRaw"
    /\ \E o \in {"ok", "term"} :
         IF o = "ok"
         THEN /\ stdinRaw' = TRUE
              /\ pc' = "Attach_ContainerAttach"
              /\ UNCHANGED <<retErr, failure>>
         ELSE Fail("Attach", o) /\ UNCHANGED stdinRaw
    /\ UNCHANGED <<lvars, began, ctx, sigChan, sigListener, signals, wvars, evars,
                   stdoutRaw, restored, conn, copyIn, copyOut>>
    /\ UNCHANGED qvars

\* c.client.ContainerAttach(ctx, ...) and g.Go of the stdin copy task
AttachContainerAttach ==
    /\ pc = "Attach_ContainerAttach"
    /\ \E o \in EngineOutcomes(ctx) :
         IF o = "ok"
         THEN /\ conn' = "open"
              /\ copyIn' = "running"
              /\ pc' = "Attach_stdoutRaw"
              /\ UNCHANGED <<retErr, failure>>
         ELSE Fail("Attach", o) /\ UNCHANGED <<conn, copyIn>>
    /\ UNCHANGED <<lvars, began, ctx, sigChan, sigListener, signals, wvars, evars,
                   stdinRaw, stdoutRaw, restored, copyOut>>
    /\ UNCHANGED qvars

\* out.SetRawTerminal(), g.Go of the output copy task, return nil
AttachStdoutRaw ==
    /\ pc = "Attach_stdoutRaw"
    /\ \E o \in {"ok", "term"} :
         IF o = "ok"
         THEN /\ stdoutRaw' = TRUE
              /\ copyOut' = "running"
              /\ Succeed("Attach")
         ELSE Fail("Attach", o) /\ UNCHANGED <<stdoutRaw, copyOut>>
    /\ UNCHANGED <<lvars, began, ctx, sigChan, sigListener, signals, wvars, evars,
                   stdinRaw, restored, conn, copyIn>>
    /\ UNCHANGED qvars

\* io.Copy: the end of the source is not an error
IoCopy(r) == IF r = "EOF" THEN "nil" ELSE r

\* gctx.Err(): the group's context is cancelled with the session context
\* (no task returns an error, and g.Wait returns after both tasks)
GctxErr(c) == IF c = "canceled" THEN "canceled" ELSE "nil"

WarnsWhateverCtx(err, c) == err # "nil"

\* the stdin task warns: if gctx.Err() != nil { return nil }
\*                       if err != nil { w.Warningf(...) }
WarnsStdin(err, c) == GctxErr(c) = "nil" /\ err # "nil"

\* the output task warns: if gctx.Err() != nil { return nil }
\*                        if err != nil && err != io.EOF { w.Warningf(...) }
WarnsOutput(err, c) == GctxErr(c) = "nil" /\ err # "nil" /\ err # "EOF"

\* what a copy task's function returns to the errgroup
TaskError(err) == "nil"

NotFinished == [err |-> "none", warned |-> FALSE, ret |-> "none"]

\* a copy task's function returns: its warning and what it returns
Finished(t, err, warned) ==
    /\ copyLog' = [copyLog EXCEPT ![t] = [err |-> err, warned |-> warned,
                                          ret |-> TaskError(err)]]
    /\ warnings' = IF warned THEN Append(warnings, CopyWarning(t, err))
                   ELSE warnings

\* the stdin copy task: io.Copy(response.Conn, in) returns, because host
\* stdin ended or because a read or a write failed; then the check of
\* gctx.Err(), the warning, return nil, and the deferred
\* response.Conn.Close() and restore()
StdinCopyExit ==
    /\ Alive
    /\ copyIn = "running"
    /\ \E r \in {"EOF", "io"} :
         Finished("stdin", IoCopy(r), WarnsStdin(IoCopy(r), ctx))
    /\ copyIn' = "done"
    /\ conn' = "closed"
    /\ Restore
    /\ UNCHANGED <<lvars, rvars, wvars, evars, copyOut>>
    /\ UNCHANGED <<stopLog, yvars>>
    /\ UNCHANGED pvars

\* the output copy task: io.Copy(out, response.Reader) returns, because the
\* container's stream ended or because the connection was closed under it;
\* then the check of gctx.Err(), the warning, return nil, and the deferred
\* restore()
OutputCopyExit ==
    /\ Alive
    /\ copyOut = "running"
    /\ \E r \in (IF conn = "closed" THEN {"io"} ELSE {})
                \cup (IF container # "running" THEN {"EOF"} ELSE {}) :
         Finished("output", IoCopy(r), WarnsOutput(IoCopy(r), ctx))
    /\ copyOut' = "done"
    /\ Restore
    /\ UNCHANGED <<lvars, rvars, wvars, evars, conn, copyIn>>
    /\ UNCHANGED <<stopLog, yvars>>
    /\ UNCHANGED pvars

\* ---- container.Wait(ctx, w)
\* status codes a container's command can exit with
ExitCodes == {0, 1, 42}

\* fmt's %d verb
FormatD(n) == ToString(n)

\* w.Printf("\nContainer exited with status: %d\n", status.StatusCode)
StatusMessage(status) ==
    [text |-> "Container exited with status: %d", arg |-> FormatD(status)]

\* w.Println("\nReceived signal, stopping container...")
SignalMessage == [text |-> "Received signal, stopping container...", arg |-> ""]

\* w.Warningf("failed to stop container: %v", err)
StopWarning(err) == [text |-> "failed to stop container: %v", arg |-> err]

ResultErrorNonzero(status) ==
    IF status # 0 THEN Wrap("Wait", "exit status") ELSE NoError

\* what Wait returns after the wait.Result case: it falls out of the select
\* to "return nil"
ResultError(status) == NoError

\* a select that is blocked is woken by the first of its channels that
\* becomes ready, and executes that case
Wake(case) ==
    waitCase' = IF pc = "Wait_blocked" /\ waitCase = "none" THEN case ELSE waitCase

\* the select runs a case whose channel is ready: any of them when it reaches
\* the select with channels ready, the one that woke it when it was blocked
Selects(case) ==
    \/ pc = "Wait_select"
    \/ pc = "Wait_blocked" /\ waitCase = case

\* c.client.ContainerWait(ctx, ...) and signal.Notify(sigChan, ...)
WaitEnter ==
    /\ pc = "Wait"
    /\ Begin("Wait")
    /\ waitChan' = "pending"
    /\ waitSigChan' = "empty"
    /\ pc' = "Wait_select"
    /\ UNCHANGED <<lvars, retErr, failure, ctx, sigChan, sigListener, signals,
                   stopRequests, waitCase, waitTaken, sigPending, sigInWait,
                   exitCode, sink, evars, tvars>>
    /\ UNCHANGED qvars

\* select { ... } with no channel ready: the goroutine blocks
WaitBlock ==
    /\ pc = "Wait_select"
    /\ waitChan = "pending"
    /\ waitSigChan = "empty"
    /\ pc' = "Wait_blocked"
    /\ UNCHANGED <<lvars, began, retErr, failure, ctx, sigChan, sigListener,
                   signals, wvars, evars, tvars>>
    /\ UNCHANGED qvars

\* the engine client answers the wait request on wait.Result or wait.Error
EngineWait ==
    /\ Alive
    /\ waitChan = "pending"
    /\ \E o \in (IF container = "exited" THEN {"result"} ELSE {})
                \cup (IF ctx = "canceled" THEN {"canceled"} ELSE {"engine"}) :
         /\ waitChan' = o
         /\ Wake(IF o = "result" THEN "result" ELSE "error")
    /\ UNCHANGED <<lvars, rvars, waitSigChan, stopRequests, waitTaken, sigPending,
                   sigInWait, exitCode, sink, evars, tvars>>
    /\ UNCHANGED qvars

\* case err := <-wait.Error
WaitError ==
    /\ Selects("error")
    /\ waitChan \in {"canceled", "engine"}
    /\ Fail("Wait", waitChan)
    /\ waitChan' = "none"
    /\ waitTaken' = "error"
    /\ UNCHANGED <<lvars, began, ctx, sigChan, sigListener, signals,
                   waitSigChan, stopRequests, waitCase, sigPending, sigInWait,
                   exitCode, sink, evars, tvars>>
    /\ UNCHANGED qvars

\* case status := <-wait.Result
WaitResult ==
    /\ Selects("result")
    /\ waitChan = "result"
    /\ sink' = Append(sink, StatusMessage(exitCode))
    /\ IF ResultError(exitCode) = NoError
       THEN Succeed("Wait")
       ELSE Fail("Wait", ResultError(exitCode).cause)
    /\ waitChan' = "none"
    /\ waitTaken' = "result"
    /\ UNCHANGED <<lvars, began, ctx, sigChan, sigListener, signals,
                   waitSigChan, stopRequests, waitCase, sigPending, sigInWait,
                   exitCode, evars, tvars>>
    /\ UNCHANGED qvars

\* config.StopTimeout (seconds), as main passes it to CreateContainer
DefaultStopTimeout == 10

SignalErrorOnFailure(o) == IF o = "ok" THEN NoError ELSE Wrap("Wait", o)

\* what Wait returns after the <-sigChan case, o being what ContainerStop
\* returned: it falls out of the select to "return nil"
SignalError(o) == NoError

\* the release action of the container has been called
RemoveInvoked == \E i \in 1..Len(invoked) : invoked[i] = "container"

\* case <-sigChan: timeout := c.StopTimeout; c.client.ContainerStop(ctx, ...)
WaitSignal ==
    /\ Selects("signal")
    /\ waitSigChan = "full"
    /\ waitSigChan' = "empty"
    /\ stopRequests' = stopRequests + 1
    /\ stopLog' = Append(stopLog, [timeout |-> DefaultStopTimeout,
                                   removeInvoked |-> RemoveInvoked])
    /\ \E o \in EngineOutcomes(ctx) :
         /\ IF o = "ok"
            THEN /\ sink' = Append(sink, SignalMessage)
                 /\ IF container = "running"
                    THEN container' = "exited" /\ exitCode' \in ExitCodes
                    ELSE UNCHANGED <<container, exitCode>>
            ELSE /\ sink' = Append(Append(sink, SignalMessage), StopWarning(o))
                 /\ UNCHANGED <<container, exitCode>>
         /\ IF SignalError(o) = NoError
            THEN Succeed("Wait")
            ELSE Fail("Wait", SignalError(o).cause)
    /\ waitTaken' = "signal"
    /\ UNCHANGED <<lvars, began, ctx, sigChan, sigListener, signals, waitChan,
                   waitCase, sigPending, sigInWait,
                   listener, serving, dockerClient, archive, copied, tvars>>
    /\ UNCHANGED <<kvars, warnings, yvars>>
    /\ UNCHANGED pvars

\* ---- the environment and run's signal goroutine
\* SIGINT or SIGTERM is raised: os/signal sends it to every channel registered
\* by signal.Notify, one channel after the other
RaiseSignal ==
    /\ Alive
    /\ signals < MaxSignals
    /\ sigPending = {}
    /\ signals' = signals + 1
    /\ sigPending' = {"run"} \cup (IF waitSigChan = "unregistered" THEN {} ELSE {"wait"})
    /\ sigInWait' = (sigInWait \/ pc = "Wait_blocked")
    /\ UNCHANGED <<lvars, pc, began, retErr, failure, ctx, sigChan, sigListener,
                   waitSigChan, waitChan, stopRequests, waitCase, waitTaken,
                   exitCode, sink, evars, tvars>>
    /\ UNCHANGED qvars

\* the non-blocking send to run's channel (capacity 1)
DeliverRun ==
    /\ Alive
    /\ "run" \in sigPending
    /\ sigPending' = sigPending \ {"run"}
    /\ sigChan' = 1
    /\ UNCHANGED <<lvars, pc, began, retErr, failure, ctx, sigListener, signals,
                   waitSigChan, waitChan, stopRequests, waitCase, waitTaken,
                   sigInWait, exitCode, sink, evars, tvars>>
    /\ UNCHANGED qvars

\* the non-blocking send to Wait's channel (capacity 1)
DeliverWait ==
    /\ Alive
    /\ "wait" \in sigPending
    /\ sigPending' = sigPending \ {"wait"}
    /\ waitSigChan' = "full"
    /\ Wake("signal")
    /\ UNCHANGED <<lvars, rvars, waitChan, stopRequests, waitTaken, sigInWait,
                   exitCode, sink, evars, tvars>>
    /\ UNCHANGED qvars

\* go func() { <-sigChan; cancel() }()
SignalListener ==
    /\ Alive
    /\ sigListener = "waiting"
    /\ sigChan = 1
    /\ sigChan' = 0
    /\ sigListener' = "done"
    /\ ctx' = "canceled"
    /\ UNCHANGED <<lvars, pc, began, retErr, failure, signals, wvars, evars, tvars>>
    /\ UNCHANGED qvars

\* the container's command ends
ContainerExit ==
    /\ Alive
    /\ container = "running"
    /\ container' = "exited"
    /\ exitCode' \in ExitCodes
    /\ UNCHANGED <<lvars, rvars, waitSigChan, waitChan, stopRequests, waitCase,
                   waitTaken, sigPending, sigInWait, sink,
                   listener, serving, dockerClient, archive, copied, tvars>>
    /\ UNCHANGED qvars

\* ---- the deferred calls of run
DeferCancelAfterExecute ==
    /\ pc = "return"
    /\ ctx' = ctx
    /\ pc' = "Execute"
    /\ task' = [task EXCEPT ![0].pc = "Execute_lock"]
    /\ UNCHANGED <<funcs, mu, invoked, logged, pushed, pushCalls, execCalls, execDone,
                   began, retErr, failure, sigChan, sigListener, signals,
                   wvars, evars, tvars>>
    /\ UNCHANGED qvars

\* defer cancel(): registered after the deferred Execute, so it runs first
DeferCancel ==
    /\ pc = "return"
    /\ ctx' = "canceled"
    /\ pc' = "Execute"
    /\ task' = [task EXCEPT ![0].pc = "Execute_lock"]
    /\ UNCHANGED <<funcs, mu, invoked, logged, pushed, pushCalls, execCalls, execDone,
                   began, retErr, failure, sigChan, sigListener, signals,
                   wvars, evars, tvars>>
    /\ UNCHANGED qvars

\* defer cleanupMgr.Execute()
RunExecuteLock ==
    /\ pc = "Execute"
    /\ ExecuteLock(0)
    /\ UNCHANGED <<rvars, wvars, evars, tvars>>
    /\ UNCHANGED qvars

RunExecuteCallFn ==
    /\ pc = "Execute"
    /\ ExecuteCallFn(0)
    /\ UNCHANGED <<rvars, wvars, evars, tvars>>
    /\ UNCHANGED qvars

\* Execute returned: run returns retErr and main ends the process
RunExecuteUnlock ==
    /\ pc = "Execute"
    /\ ExecuteUnlock(0)
    /\ pc' = "done"
    /\ UNCHANGED <<began, retErr, failure, ctx, sigChan, sigListener, signals,
                   wvars, evars, tvars>>
    /\ UNCHANGED qvars

\* remote.Close: s.server.Close() and s.listener.Close()
RemoteClose ==
    /\ pc = "Execute"
    /\ task[0].pc = "Execute_fn"
    /\ CurrentFn(0).fn = "remote.Close"
    /\ listener' = "closed"
    /\ serving' = FALSE
    /\ \E failed \in BOOLEAN : FnReturns(0, failed)
    /\ UNCHANGED <<rvars, wvars, dockerClient, container, archive, copied, tvars>>
    /\ UNCHANGED qvars

\* func() error { client.Close(); return nil }
ClientClose ==
    /\ pc = "Execute"
    /\ task[0].pc = "Execute_fn"
    /\ CurrentFn(0).fn = "client.Close"
    /\ dockerClient' = "closed"
    /\ FnReturns(0, FALSE)
    /\ UNCHANGED <<rvars, wvars, listener, serving, container, archive, copied, tvars>>
    /\ UNCHANGED qvars

\* func() error { return container.ForceRemove(ctx) }
ForceRemove ==
    /\ pc = "Execute"
    /\ task[0].pc = "Execute_fn"
    /\ CurrentFn(0).fn = "container.ForceRemove"
    /\ \E o \in EngineOutcomes(ctx) :
         /\ container' = IF o = "ok" THEN "removed" ELSE container
         /\ FnReturns(0, o # "ok")
    /\ UNCHANGED <<rvars, wvars, listener, serving, dockerClient, archive, copied, tvars>>
    /\ UNCHANGED qvars

\* archive.Close: a.pr.Close()
ArchiveClose ==
    /\ pc = "Execute"
    /\ task[0].pc = "Execute_fn"
    /\ CurrentFn(0).fn = "archive.Close"
    /\ archive' = "closed"
    /\ FnReturns(0, FALSE)
    /\ UNCHANGED <<rvars, wvars, listener, serving, dockerClient, container, copied, tvars>>
    /\ UNCHANGED qvars

\* ------------------------------------------------------- specifications
InitSteps ==
    /\ pc = "Getwd"
    /\ began = <<>>
    /\ retErr = NoError
    /\ failure = <<>>
    /\ ctx = "active"
    /\ sigChan = 0
    /\ sigListener = "waiting"
    /\ signals = 0
    /\ listener = "none"
    /\ serving = FALSE
    /\ dockerClient = "none"
    /\ container = "none"
    /\ archive = "none"
    /\ copied = FALSE

\* Wait has not been called
InitWait ==
    /\ waitSigChan = "unregistered"
    /\ waitChan = "none"
    /\ stopRequests = 0
    /\ stopLog = <<>>
    /\ waitCase = "none"
    /\ waitTaken = "none"
    /\ sigPending = {}
    /\ sigInWait = FALSE
    /\ exitCode = 0
    /\ sink = <<>>

\* Attach has not been called
InitBridge ==
    /\ stdinRaw = FALSE
    /\ stdoutRaw = FALSE
    /\ restored = FALSE
    /\ conn = "none"
    /\ copyIn = "none"
    /\ copyOut = "none"
    /\ copyLog = [stdin |-> NotFinished, output |-> NotFinished]
    /\ restoreCalls = 0
    /\ restoreRuns = 0
    /\ warnings = <<>>
    /\ monitorErr = "none"
    /\ retryPc = "none"
    /\ retry = 0
    /\ retryErr = "nil"
    /\ attempts = <<>>
    /\ fatal = <<>>
    /\ winch = "none"

InitRun == InitSteps /\ InitWait /\ InitBridge

\* CreateArchive has returned nothing, and there is no pipe yet
IdleStream ==
    /\ aret = "none"
    /\ aerr = ""
    /\ scratch = "none"
    /\ pw = "none"
    /\ pwErr = NoError
    /\ tw = "none"
    /\ reader = "none"
    /\ readErr = NoError

IdleArchive ==
    /\ repo = <<>>
    /\ tmp = <<>>
    /\ entries = <<>>
    /\ apc = "idle"
    /\ queue = <<>>
    /\ IdleStream

NoResult == [kind |-> "none", value |-> ""]

IdleBuild ==
    /\ records = <<>>
    /\ bpc = "idle"
    /\ bpos = 0
    /\ bctx = "active"
    /\ cancelAt = -1
    /\ bsink = <<>>
    /\ result = NoResult

IdleConfig ==
    /\ cargs = <<>>
    /\ cenv = <<>>
    /\ cpc = "idle"
    /\ fsArgs = <<>>
    /\ additionalEnv = <<>>
    /\ volumes = <<>>
    /\ dockerfilePath = <<>>
    /\ network = <<>>
    /\ config = <<>>

IdleSession ==
    /\ sid = -1
    /\ snames = {}
    /\ sbranches = {}
    /\ engine = <<>>
    /\ sessions = <<>>

Init == InitLedger /\ InitRun /\ IdleArchive /\ IdleBuild /\ IdleConfig /\ IdleSession

Next ==
    \/ Getwd
    \/ NewServer
    \/ NewDefaultClient
    \/ BuildImage
    \/ CreateContainer
    \/ CreateArchive
    \/ CopyTo
    \/ Start
    \/ AttachResize
    \/ MonitorResized
    \/ AttachStdinRaw
    \/ AttachContainerAttach
    \/ AttachStdoutRaw
    \/ StdinCopyExit
    \/ OutputCopyExit
    \/ WaitEnter
    \/ WaitBlock
    \/ EngineWait
    \/ WaitError
    \/ WaitResult
    \/ WaitSignal
    \/ RaiseSignal
    \/ DeliverRun
    \/ DeliverWait
    \/ SignalListener
    \/ ContainerExit
    \/ DeferCancel
    \/ RunExecuteLock
    \/ RunExecuteCallFn
    \/ RunExecuteUnlock
    \/ RemoteClose
    \/ ClientClose
    \/ ForceRemove
    \/ ArchiveClose

Spec == Init /\ [][Next]_vars

\* container.Attach and the goroutines it starts, from the state in which run
\* calls it: every step before it succeeded
InitAttach ==
    /\ funcs = <<cleanupFunc("archive", "archive.Close"),
                 cleanupFunc("container", "container.ForceRemove"),
                 cleanupFunc("docker-client", "client.Close"),
                 cleanupFunc("git-server", "remote.Close")>>
    /\ mu = {}
    /\ task = [t \in Goroutines |-> IdleTask]
    /\ invoked = <<>>
    /\ logged = <<>>
    /\ pushed = <<"git-server", "docker-client", "container", "archive">>
    /\ pushCalls = 0
    /\ execCalls = 0
    /\ execDone = 0
    /\ pc = "Attach"
    /\ began = SubSeq(StepOrder, 1, StepIndex("Start"))
    /\ retErr = NoError
    /\ failure = <<>>
    /\ ctx = "active"
    /\ sigChan = 0
    /\ sigListener = "waiting"
    /\ signals = 0
    /\ listener = "open"
    /\ serving = TRUE
    /\ dockerClient = "open"
    /\ container = "running"
    /\ archive = "open"
    /\ copied = TRUE
    /\ InitWait
    /\ InitBridge

InitSpecAttach ==
    InitAttach /\ IdleArchive /\ IdleBuild /\ IdleConfig /\ IdleSession

NextAttach ==
    \/ AttachResize
    \/ Monitor
    \/ RetryTimer
    \/ RetryAttempt
    \/ RetryCtxDone
    \/ WinchResize
    \/ WinchCtxDone
    \/ AttachStdinRaw
    \/ AttachContainerAttach
    \/ AttachStdoutRaw
    \/ StdinCopyExit
    \/ OutputCopyExit
    \/ RaiseSignal
    \/ DeliverRun
    \/ SignalListener
    \/ ContainerExit

SpecAttach == InitSpecAttach /\ [][NextAttach]_vars

\* the same, with the steps that need nothing from outside the program taken
\* whenever they stay possible: the steps of Attach, the timer and the
\* ctx.Done cases of its goroutines, the signal goroutine of run, and the
\* return of a read from a stream that has ended. A signal, a SIGWINCH, the
\* end of the container's command and input on host stdin are not
FairSpecAttach ==
    /\ SpecAttach
    /\ WF_vars(AttachResize)
    /\ WF_vars(Monitor)
    /\ WF_vars(RetryTimer)
    /\ WF_vars(RetryAttempt)
    /\ WF_vars(RetryCtxDone)
    /\ WF_vars(WinchCtxDone)
    /\ WF_vars(AttachStdinRaw)
    /\ WF_vars(AttachContainerAttach)
    /\ WF_vars(AttachStdoutRaw)
    /\ WF_vars(OutputCopyExit)
    /\ WF_vars(DeliverRun)
    /\ WF_vars(SignalListener)

\* the cleanup manager alone, used by NumCallers concurrent goroutines
LedgerAdd ==
    /\ \E t \in Callers : \E fn \in CallerFns : CallAdd(t, fn)
    /\ UNCHANGED <<rvars, wvars, evars, tvars>>
    /\ UNCHANGED qvars

LedgerAddLock ==
    /\ \E t \in Callers : AddLock(t)
    /\ UNCHANGED <<rvars, wvars, evars, tvars>>
    /\ UNCHANGED qvars

LedgerAddRead ==
    /\ \E t \in Callers : AddRead(t)
    /\ UNCHANGED <<rvars, wvars, evars, tvars>>
    /\ UNCHANGED qvars

LedgerAddBody ==
    /\ \E t \in Callers : AddBody(t)
    /\ UNCHANGED <<rvars, wvars, evars, tvars>>
    /\ UNCHANGED qvars

LedgerExecute ==
    /\ \E t \in Callers : CallExecute(t)
    /\ UNCHANGED <<rvars, wvars, evars, tvars>>
    /\ UNCHANGED qvars

LedgerExecuteLock ==
    /\ \E t \in Callers : ExecuteLock(t)
    /\ UNCHANGED <<rvars, wvars, evars, tvars>>
    /\ UNCHANGED qvars

LedgerExecuteCallFn ==
    /\ \E t \in Callers : ExecuteCallFn(t)
    /\ UNCHANGED <<rvars, wvars, evars, tvars>>
    /\ UNCHANGED qvars

LedgerExecuteUnlock ==
    /\ \E t \in Callers : ExecuteUnlock(t)
    /\ UNCHANGED <<rvars, wvars, evars, tvars>>
    /\ UNCHANGED qvars

LedgerFnNil ==
    /\ \E t \in Callers : FnNil(t)
    /\ UNCHANGED <<rvars, wvars, evars, tvars>>
    /\ UNCHANGED qvars

LedgerFnError ==
    /\ \E t \in Callers : FnError(t)
    /\ UNCHANGED <<rvars, wvars, evars, tvars>>
    /\ UNCHANGED qvars

LedgerFnAdd ==
    /\ \E t \in Callers : FnAdd(t)
    /\ UNCHANGED <<rvars, wvars, evars, tvars>>
    /\ UNCHANGED qvars

NextLedger ==
    \/ LedgerAdd
    \/ LedgerAddLock
    \/ LedgerAddRead
    \/ LedgerAddBody
    \/ LedgerExecute
    \/ LedgerExecuteLock
    \/ LedgerExecuteCallFn
    \/ LedgerExecuteUnlock
    \/ LedgerFnNil
    \/ LedgerFnError
    \/ LedgerFnAdd

SpecLedger == Init /\ [][NextLedger]_vars


\* ------------------------------------------------------- git.CreateArchive
\* a file path: absolute or not, and its components
Path(abs, parts) == [abs |-> abs, parts |-> parts]

\* filepath.Clean on the components: "." and empty components are dropped,
\* ".." removes the component before it
RECURSIVE CleanParts(_, _)
CleanParts(parts, acc) ==
    IF parts = <<>> THEN acc
    ELSE LET h == Head(parts) IN
         IF h = "." \/ h = "" THEN CleanParts(Tail(parts), acc)
         ELSE IF h = ".." /\ acc # <<>> /\ acc[Len(acc)] # ".."
              THEN CleanParts(Tail(parts), SubSeq(acc, 1, Len(acc) - 1))
              ELSE CleanParts(Tail(parts), Append(acc, h))

\* filepath.Join(a, b)
Join(a, b) == Path(a.abs, CleanParts(a.parts \o b.parts, <<>>))

\* filepath.Rel(base, target), for a target that filepath.Walk(base) visits
Rel(base, target) ==
    IF Len(target.parts) = Len(base.parts)
    THEN Path(FALSE, <<".">>)
    ELSE Path(FALSE, SubSeq(target.parts, Len(base.parts) + 1, Len(target.parts)))

\* os.MkdirTemp("", "contagent-checkout-*")
TempRoot == Path(TRUE, <<"tmp", "contagent-checkout">>)

\* the arguments run passes to CreateArchive
Remote == "http://host.docker.internal:port"
Branch == "contagent/1"
GitUserName == "Contagent"
GitUserEmail == "contagent@example.com"

\* the URL a remote of the source repository has
SourceURL(n) ==
    IF n = "origin" THEN "git@github.com:me/repo.git" ELSE "https://github.com/up/repo.git"

\* a member of a directory tree, relative to the tree's root
Member(parts, kind) == [path |-> parts, kind |-> kind]

\* the .git directory of a repository, in the lexical order of filepath.Walk;
\* hooks is absent, a directory or a symbolic link, and hooks/pre-commit is
\* absent, a file or a symbolic link
GitDir(hooks, precommit) ==
    <<Member(<<>>, "dir"), Member(<<"HEAD">>, "file"), Member(<<"config">>, "file")>>
    \o (IF hooks = "absent" THEN <<>> ELSE <<Member(<<"hooks">>, hooks)>>)
    \o (IF hooks = "dir" /\ precommit # "absent"
        THEN <<Member(<<"hooks", "pre-commit">>, precommit)>> ELSE <<>>)

\* the index of a repository, as git ls-files prints it, with what each path
\* is in a checkout of HEAD: a file, a symbolic link, a directory (a
\* submodule) or missing (staged but not in HEAD)
Index(readme, main, sub) ==
    <<Member(<<"README">>, readme)>>
    \o (IF main = "absent" THEN <<>> ELSE <<Member(<<"src", "main.go">>, main)>>)
    \o (IF sub = "absent" THEN <<>> ELSE <<Member(<<"sub">>, sub)>>)

Repositories ==
    { [git |-> GitDir(hooks, precommit),
       index |-> Index(readme, main, sub),
       remotes |-> [n \in names |-> SourceURL(n)],
       branches |-> branches,
       head |-> "main",
       email |-> "me@example.com",
       name |-> "Me"] :
        hooks \in {"absent", "dir", "symlink"},
        precommit \in {"absent", "file", "symlink"},
        readme \in {"file", "symlink", "missing"},
        main \in {"absent", "file"},
        sub \in {"absent", "dir"},
        names \in SUBSET {"origin", "upstream"},
        branches \in {{"main"}, {"main", Branch}} }

IsSymlinkNever(kind) == FALSE

\* info.Mode()&os.ModeSymlink != 0
IsSymlink(kind) == kind = "symlink"

\* info.IsDir()
IsDir(kind) == kind = "dir"

\* the type tar.Writer writes for a header: a header without Typeflag is a
\* regular file unless its name ends in "/"
WrittenType(typeflag, slash) ==
    IF typeflag = "dir" THEN "dir"
    ELSE IF slash THEN "dir" ELSE "reg"

\* a tar entry: name is the path, slash says that "/" was appended to it,
\* kind is what the archived path is on disk
Entry(name, slash, typeflag, kind, content) ==
    [name |-> name, slash |-> slash, typeflag |-> WrittenType(typeflag, slash),
     kind |-> kind, content |-> content]

\* the header (and content) the code writes for a path that is not skipped
EntryFor(name, kind, content) ==
    IF IsDir(kind)
    THEN Entry(name, TRUE, "dir", kind, "")
    ELSE Entry(name, FALSE, "", kind, content)

\* what the files of the temporary .git hold when they are archived
Content(t, path) ==
    IF path = <<"config">>
    THEN [remotes |-> t.remotes, email |-> t.email, name |-> t.name]
    ELSE IF path = <<"HEAD">> THEN t.head
    ELSE ""

\* the exit codes of "git remote remove origin" when there is no origin:
\* 2 in current git, 128 in older ones
NoSuchRemoteCodes == {2, 128}

ToleratedNoSuchRemote(code) == code \in NoSuchRemoteCodes

\* exitError.ExitCode() == 2
Tolerated(code) == code = 2

\* exit codes of a "git remote remove origin" that fails for another reason
OtherExitCodes == {1}

\* the values of err after cmd.Run(): nil, an *exec.ExitError with the exit
\* code of the command, or another error (the command could not be started)
NotRun == [kind |-> "not run", code |-> 0]
NoExitError == [kind |-> "nil", code |-> 0]
ExitError(c) == [kind |-> "ExitError", code |-> c]
StartError == [kind |-> "other", code |-> 0]

\* what "git remote remove origin" can end with in the checkout t
RemoveErrors(t) ==
    IF "origin" \in DOMAIN t.remotes
    THEN {NoExitError, StartError} \cup {ExitError(c) : c \in OtherExitCodes}
    ELSE {StartError} \cup {ExitError(c) : c \in NoSuchRemoteCodes \cup OtherExitCodes}

\* if err != nil { exitError, ok := err.(*exec.ExitError);
\*                 if !ok || exitError.ExitCode() != 2 { return ... } }
Aborts(err) ==
    /\ err.kind # "nil"
    /\ err.kind # "ExitError" \/ ~Tolerated(err.code)

RemoveAllNot(dir) == dir

\* os.RemoveAll(tempRoot)
RemoveAll(dir) == "removed"

\* the closure returns the error of the step it is at, and its deferred
\* os.RemoveAll(tempRoot) runs
ArchiveFailAt(t) ==
    /\ apc' = "failed"
    /\ aerr' = apc
    /\ scratch' = RemoveAll(scratch)
    /\ tmp' = t
    /\ UNCHANGED <<repo, entries, queue>>
    /\ UNCHANGED <<aret, pw, pwErr, tw, reader, readErr>>

ArchiveFail == ArchiveFailAt(tmp)

ArchiveStep(next, t) ==
    /\ apc' = next
    /\ tmp' = [t EXCEPT !.done = @ \cup {apc}]
    /\ UNCHANGED <<repo, entries, queue>>
    /\ UNCHANGED gvars

WritableAlways(r) == TRUE

\* a write to the pipe completes only while its read end is open and read:
\* after pr.Close() it returns io.ErrClosedPipe
Writable(r) == r = "reading"

\* exec.Command("git", "rev-parse", "--show-toplevel") in CreateArchive
ArchiveRevParse ==
    /\ apc = "rev-parse"
    /\ \/ apc' = "MkdirTemp" /\ UNCHANGED <<aret, aerr>>
       \/ apc' = "error" /\ aret' = "error" /\ aerr' = apc
    /\ UNCHANGED <<repo, tmp, entries, queue>>
    /\ UNCHANGED <<scratch, pw, pwErr, tw, reader, readErr>>
    /\ UNCHANGED notArchive

\* os.MkdirTemp, io.Pipe(), the go statement of the producer with its
\* tar.NewWriter(pw), and return &archiveCloser{pr: pr}, nil
ArchiveMkdirTemp ==
    /\ apc = "MkdirTemp"
    /\ \/ /\ apc' = "copyDirectory"
          /\ scratch' = "exists"
          /\ pw' = "open"
          /\ tw' = "open"
          /\ reader' = "reading"
          /\ aret' = "reader"
          /\ UNCHANGED aerr
       \/ /\ apc' = "error"
          /\ aret' = "error"
          /\ aerr' = apc
          /\ UNCHANGED <<scratch, pw, tw, reader>>
    /\ UNCHANGED <<repo, tmp, entries, queue>>
    /\ UNCHANGED <<pwErr, readErr>>
    /\ UNCHANGED notArchive

\* copyDirectory(src, dst): symbolic links are not copied
ArchiveCopyDirectory ==
    /\ apc = "copyDirectory"
    /\ \/ ArchiveStep("checkout HEAD",
            [tmp EXCEPT !.git = SelectSeq(repo.git, LAMBDA m : ~IsSymlink(m.kind)),
                        !.remotes = repo.remotes, !.branches = repo.branches,
                        !.head = repo.head, !.email = repo.email,
                        !.name = repo.name, !.index = repo.index])
       \/ ArchiveFail
    /\ UNCHANGED notArchive

\* git checkout HEAD .
ArchiveCheckoutHead ==
    /\ apc = "checkout HEAD"
    /\ \/ ArchiveStep("remote remove", [tmp EXCEPT !.worktree = TRUE])
       \/ ArchiveFail
    /\ UNCHANGED notArchive

\* git remote remove origin
ArchiveRemoteRemove ==
    /\ apc = "remote remove"
    /\ \E err \in RemoveErrors(tmp) :
         LET t == [tmp EXCEPT !.removeErr = err,
                              !.remotes = IF err = NoExitError
                                          THEN [n \in DOMAIN @ \ {"origin"} |-> @[n]]
                                          ELSE @]
         IN IF Aborts(err) THEN ArchiveFailAt(t) ELSE ArchiveStep("remote add", t)
    /\ UNCHANGED notArchive

\* git remote add origin <remote>
ArchiveRemoteAdd ==
    /\ apc = "remote add"
    /\ \/ /\ "origin" \notin DOMAIN tmp.remotes
          /\ ArchiveStep("config user.email",
                [tmp EXCEPT !.remotes = [n \in DOMAIN tmp.remotes \cup {"origin"} |->
                                 IF n = "origin" THEN Remote ELSE tmp.remotes[n]]])
       \/ ArchiveFail
    /\ UNCHANGED notArchive

\* git config user.email <gitUserEmail>
ArchiveConfigEmail ==
    /\ apc = "config user.email"
    /\ \/ ArchiveStep("config user.name", [tmp EXCEPT !.email = GitUserEmail])
       \/ ArchiveFail
    /\ UNCHANGED notArchive

\* git config user.name <gitUserName>
ArchiveConfigName ==
    /\ apc = "config user.name"
    /\ \/ ArchiveStep("checkout -b", [tmp EXCEPT !.name = GitUserName])
       \/ ArchiveFail
    /\ UNCHANGED notArchive

\* git checkout -b <branch>
ArchiveCheckoutBranch ==
    /\ apc = "checkout -b"
    /\ \/ /\ Branch \notin tmp.branches
          /\ ArchiveStep("app header",
                [tmp EXCEPT !.head = Branch, !.branches = @ \cup {Branch}])
       \/ ArchiveFail
    /\ UNCHANGED notArchive

\* the "app/" header, and the start of addDirectoryToArchive(tw, dst, "app/.git")
ArchiveAppHeader ==
    /\ apc = "app header"
    /\ \/ /\ Writable(reader)
          /\ entries' = Append(entries, Entry(Path(FALSE, <<"app">>), TRUE, "dir", "dir", ""))
          /\ queue' = tmp.git
          /\ apc' = "add .git"
          /\ UNCHANGED <<repo, tmp>>
          /\ UNCHANGED gvars
       \/ ArchiveFail
    /\ UNCHANGED notArchive

\* one call of the walk function of addDirectoryToArchive
ArchiveGitMember ==
    /\ apc = "add .git"
    /\ queue # <<>>
    /\ LET m == Head(queue)
           srcDir == Join(TempRoot, Path(FALSE, <<".git">>))
           filePath == Join(srcDir, Path(FALSE, m.path))
           fullTarPath == Join(Path(FALSE, <<"app", ".git">>), Rel(srcDir, filePath))
       IN \/ /\ IsSymlink(m.kind) \/ Writable(reader)
             /\ entries' = IF IsSymlink(m.kind) THEN entries
                           ELSE Append(entries,
                                    EntryFor(fullTarPath, m.kind, Content(tmp, m.path)))
             /\ queue' = Tail(queue)
             /\ UNCHANGED <<repo, tmp, apc>>
             /\ UNCHANGED gvars
          \/ ~IsSymlink(m.kind) /\ ArchiveFail
    /\ UNCHANGED notArchive

\* git ls-files
ArchiveLsFiles ==
    /\ apc = "add .git"
    /\ queue = <<>>
    /\ \/ /\ queue' = tmp.index
          /\ apc' = "tracked"
          /\ UNCHANGED <<repo, tmp, entries>>
          /\ UNCHANGED gvars
       \/ ArchiveFail
    /\ UNCHANGED notArchive

\* one iteration of the loop over the tracked paths
ArchiveTracked ==
    /\ apc = "tracked"
    /\ queue # <<>>
    /\ LET m == Head(queue)
           relPath == Path(FALSE, m.path)
           skipped == m.kind = "missing" \/ IsSymlink(m.kind)
       IN \/ /\ skipped \/ Writable(reader)
             /\ entries' = IF skipped THEN entries
                           ELSE Append(entries,
                                    EntryFor(Join(Path(FALSE, <<"app">>), relPath),
                                             m.kind, ""))
             /\ queue' = Tail(queue)
             /\ UNCHANGED <<repo, tmp, apc>>
             /\ UNCHANGED gvars
          \/ ~skipped /\ ArchiveFail
    /\ UNCHANGED notArchive

\* the closure returns nil, and its deferred os.RemoveAll(tempRoot) runs
ArchiveProducerClose ==
    /\ apc = "tracked"
    /\ queue = <<>>
    /\ apc' = "closed"
    /\ scratch' = RemoveAll(scratch)
    /\ UNCHANGED <<repo, tmp, entries, queue>>
    /\ UNCHANGED <<aret, aerr, pw, pwErr, tw, reader, readErr>>
    /\ UNCHANGED notArchive

ClosedAsEOF(err) == "closed"

\* if err != nil { pw.CloseWithError(...) } else { pw.Close() }
ClosedAs(err) == IF err # "" THEN "closed with error" ELSE "closed"

\* fmt.Errorf("failed to create git archive: %w", err)
ArchiveError(err) == Wrap("create git archive", err)

\* the producer goroutine after the closure: the pipe's write end is closed
ArchivePipeClose ==
    /\ apc \in {"closed", "failed"}
    /\ pw = "open"
    /\ pw' = ClosedAs(aerr)
    /\ pwErr' = IF ClosedAs(aerr) = "closed" THEN NoError ELSE ArchiveError(aerr)
    /\ UNCHANGED avars
    /\ UNCHANGED <<aret, aerr, scratch, tw, reader, readErr>>
    /\ UNCHANGED notArchive

\* tw.Close(): it writes the padding and the trailer to the pipe
TarClose(w) == IF w = "open" THEN "closed" ELSE "close failed"

\* the producer goroutine's deferred tw.Close()
ArchiveTarClose ==
    /\ pw \in {"closed", "closed with error"}
    /\ tw = "open"
    /\ tw' = TarClose(pw)
    /\ UNCHANGED avars
    /\ UNCHANGED <<aret, aerr, scratch, pw, pwErr, reader, readErr>>
    /\ UNCHANGED notArchive

\* io.EOF
EOFError == [step |-> "", cause |-> "EOF"]

\* archiveCloser.Read at the end of the stream: io.EOF after pw.Close(), the
\* error after pw.CloseWithError
ArchiveCloserRead ==
    /\ reader = "reading"
    /\ pw \in {"closed", "closed with error"}
    /\ reader' = IF pw = "closed" THEN "EOF" ELSE "error"
    /\ readErr' = IF pw = "closed" THEN EOFError ELSE pwErr
    /\ UNCHANGED avars
    /\ UNCHANGED <<aret, aerr, scratch, pw, pwErr, tw>>
    /\ UNCHANGED notArchive

\* archiveCloser.Close: a.pr.Close(), by a consumer that has not read the
\* stream to its end
ArchiveCloserClose ==
    /\ reader = "reading"
    /\ reader' = "closed"
    /\ UNCHANGED avars
    /\ UNCHANGED <<aret, aerr, scratch, pw, pwErr, tw, readErr>>
    /\ UNCHANGED notArchive

InitArchive ==
    /\ repo \in Repositories
    /\ tmp = [git |-> <<>>, index |-> <<>>, worktree |-> FALSE,
              remotes |-> [n \in {} |-> ""], branches |-> {}, head |-> "",
              email |-> "", name |-> "", removeErr |-> NotRun, done |-> {}]
    /\ entries = <<>>
    /\ apc = "rev-parse"
    /\ queue = <<>>
    /\ IdleStream

\* the steps of CreateArchive and of its producer goroutine
NextProducer ==
    \/ ArchiveRevParse
    \/ ArchiveMkdirTemp
    \/ ArchiveCopyDirectory
    \/ ArchiveCheckoutHead
    \/ ArchiveRemoteRemove
    \/ ArchiveRemoteAdd
    \/ ArchiveConfigEmail
    \/ ArchiveConfigName
    \/ ArchiveCheckoutBranch
    \/ ArchiveAppHeader
    \/ ArchiveGitMember
    \/ ArchiveLsFiles
    \/ ArchiveTracked
    \/ ArchiveProducerClose
    \/ ArchivePipeClose
    \/ ArchiveTarClose

NextArchive ==
    \/ NextProducer
    \/ ArchiveCloserRead
    \/ ArchiveCloserClose

InitSpecArchive ==
    InitLedger /\ InitRun /\ InitArchive /\ IdleBuild /\ IdleConfig /\ IdleSession

SpecArchive == InitSpecArchive /\ [][NextArchive]_vars

\* the same, with CreateArchive and its producer goroutine taking a step
\* whenever one stays possible; the consumer reads and closes as it likes
FairSpecArchive == SpecArchive /\ WF_vars(NextProducer)


\* ---------------------------------------------------- docker.Client.BuildImage
\* string(imageName)
ImageName == "contagent:latest"

\* a JSON object of the response body: the keys it has and their values
Object(keys, stream, code, message) ==
    [malformed |-> FALSE, keys |-> keys, stream |-> stream, code |-> code,
     message |-> message]

\* bytes that are not a JSON object
Malformed == [malformed |-> TRUE, keys |-> {}, stream |-> "", code |-> 0, message |-> ""]

\* the records an engine can send
RecordChoices ==
    { Object({"stream"}, "Step 1/2 : FROM alpine", 0, ""),
      Object({"aux"}, "", 0, ""),
      Object({"errorDetail.message", "error"}, "", 0, "dockerfile parse error"),
      Object({"errorDetail.code", "errorDetail.message", "error"}, "", 1, "returned a non-zero code: 1"),
      Object({"stream", "errorDetail.code", "errorDetail.message"}, "partial", 2, "no such image"),
      Malformed }

RECURSIVE SeqsUpTo(_, _)
SeqsUpTo(S, n) ==
    IF n = 0 THEN {<<>>}
    ELSE LET shorter == SeqsUpTo(S, n - 1)
         IN shorter \cup {Append(q, x) : q \in {r \in shorter : Len(r) = n - 1}, x \in S}

\* decoder.Decode(&output): a key the object lacks leaves the zero value, a
\* key the struct lacks is ignored
Decode(r) ==
    [err |-> r.malformed,
     Stream |-> IF "stream" \in r.keys THEN r.stream ELSE "",
     Code |-> IF "errorDetail.code" \in r.keys THEN r.code ELSE 0,
     Message |-> IF "errorDetail.message" \in r.keys THEN r.message ELSE ""]

ErrorDetailAny(output) == output.Code # 0 \/ output.Message # ""

\* output.ErrorDetail.Code != 0
ErrorDetail(output) == output.Code # 0

Return(kind, value) ==
    /\ bpc' = "done"
    /\ result' = [kind |-> kind, value |-> value]

\* the context is cancelled while BuildImage reads the build output
BuildCancel ==
    /\ bpc = "loop"
    /\ bctx = "active"
    /\ bctx' = "canceled"
    /\ cancelAt' = bpos
    /\ UNCHANGED <<records, bpc, bpos, bsink, result>>
    /\ UNCHANGED notBuild

\* case <-ctx.Done(): return Image{}, ctx.Err()
BuildCtxDone ==
    /\ bpc = "loop"
    /\ bpos < Len(records)
    /\ bctx = "canceled"
    /\ Return("canceled", "context canceled")
    /\ UNCHANGED <<records, bpos, bctx, cancelAt, bsink>>
    /\ UNCHANGED notBuild

\* decoder.Decode fails
BuildDecodeError ==
    /\ bpc = "loop"
    /\ bpos < Len(records)
    /\ bctx = "active"
    /\ Decode(records[bpos + 1]).err
    /\ Return("decode", "failed to decode build output")
    /\ bpos' = bpos + 1
    /\ UNCHANGED <<records, bctx, cancelAt, bsink>>
    /\ UNCHANGED notBuild

\* the record carries an error code: return its message
BuildErrorDetail ==
    /\ bpc = "loop"
    /\ bpos < Len(records)
    /\ bctx = "active"
    /\ LET output == Decode(records[bpos + 1]) IN
         /\ ~output.err
         /\ ErrorDetail(output)
         /\ Return("build", output.Message)
    /\ bpos' = bpos + 1
    /\ UNCHANGED <<records, bctx, cancelAt, bsink>>
    /\ UNCHANGED notBuild

\* w.Print(output.Stream)
BuildPrint ==
    /\ bpc = "loop"
    /\ bpos < Len(records)
    /\ bctx = "active"
    /\ LET output == Decode(records[bpos + 1]) IN
         /\ ~output.err
         /\ ~ErrorDetail(output)
         /\ bsink' = Append(bsink, output.Stream)
    /\ bpos' = bpos + 1
    /\ UNCHANGED <<records, bpc, bctx, cancelAt, result>>
    /\ UNCHANGED notBuild

\* decoder.More() is false: return Image{Name: string(imageName)}, nil
BuildReturn ==
    /\ bpc = "loop"
    /\ bpos = Len(records)
    /\ Return("image", ImageName)
    /\ UNCHANGED <<records, bpos, bctx, cancelAt, bsink>>
    /\ UNCHANGED notBuild

InitBuild ==
    /\ records \in SeqsUpTo(RecordChoices, MaxRecords)
    /\ bpc = "loop"
    /\ bpos = 0
    /\ bctx = "active"
    /\ cancelAt = -1
    /\ bsink = <<>>
    /\ result = NoResult

NextBuild ==
    \/ BuildCancel
    \/ BuildCtxDone
    \/ BuildDecodeError
    \/ BuildErrorDetail
    \/ BuildPrint
    \/ BuildReturn

InitSpecBuild ==
    InitLedger /\ InitRun /\ IdleArchive /\ InitBuild /\ IdleConfig /\ IdleSession

SpecBuild == InitSpecBuild /\ [][NextBuild]_vars


\* ---------------------------------------------------- internal.ParseConfig
\* a string is the sequence of its characters
sEnv == <<"e", "n", "v">>
sVolume == <<"v", "o", "l", "u", "m", "e">>
sDockerfile == <<"d", "o", "c", "k", "e", "r", "f", "i", "l", "e">>
sNetwork == <<"n", "e", "t", "w", "o", "r", "k">>
sDefault == <<"d", "e", "f", "a", "u", "l", "t">>
sTERM == <<"T", "E", "R", "M">>
sCOLORTERM == <<"C", "O", "L", "O", "R", "T", "E", "R", "M">>
sAPIKEY == <<"A", "N", "T", "H", "R", "O", "P", "I", "C", "_", "A", "P", "I", "_", "K", "E", "Y">>
sXterm256color == <<"x", "t", "e", "r", "m", "-", "2", "5", "6", "c", "o", "l", "o", "r">>
sTruecolor == <<"t", "r", "u", "e", "c", "o", "l", "o", "r">>
sSSHAuthSock ==
    <<"S", "S", "H", "_", "A", "U", "T", "H", "_", "S", "O", "C", "K", "=", "/", "r", "u", "n", "/", "h", "o", "s", "t", "-", "s", "e", "r", "v", "i", "c", "e", "s", "/", "s", "s", "h", "-", "a", "u", "t", "h", ".", "s", "o", "c", "k">>
sDockerSockVolume ==
    <<"/", "v", "a", "r", "/", "r", "u", "n", "/", "d", "o", "c", "k", "e", "r", ".", "s", "o", "c", "k", ":", "/", "v", "a", "r", "/", "r", "u", "n", "/", "d", "o", "c", "k", "e", "r", ".", "s", "o", "c", "k">>
sSSHAuthSockVolume ==
    <<"/", "r", "u", "n", "/", "h", "o", "s", "t", "-", "s", "e", "r", "v", "i", "c", "e", "s", "/", "s", "s", "h", "-", "a", "u", "t", "h", ".", "s", "o", "c", "k", ":", "/", "r", "u", "n", "/", "h", "o", "s", "t", "-", "s", "e", "r", "v", "i", "c", "e", "s", "/", "s", "s", "h", "-", "a", "u", "t", "h", ".", "s", "o", "c", "k">>

\* the arguments a command line is made of
ArgChoices ==
    { <<"-", "-", "e", "n", "v">>,
      <<"-", "-", "v", "o", "l", "u", "m", "e">>,
      <<"-", "-", "n", "e", "t", "w", "o", "r", "k">>,
      <<"-", "-", "r", "m">>,
      <<"-", "-">>,
      <<"c", "m", "d">>,
      <<"K", "=", "V">>,
      <<"-", "e", "n", "v", "=", "A", "=", "B">>,
      <<"-", "-", "-">> }

\* the entries a host environment is made of
EnvChoices ==
    { <<"T", "E", "R", "M", "=", "x", "t", "e", "r", "m">>,
      <<"T", "E", "R", "M", "=">>,
      <<"T", "E", "R", "M">>,
      <<"C", "O", "L", "O", "R", "T", "E", "R", "M", "=", "2", "4", "b", "i", "t">>,
      <<"A", "N", "T", "H", "R", "O", "P", "I", "C", "_", "A", "P", "I", "_", "K", "E", "Y", "=", "s", "k">>,
      <<"S", "S", "H", "_", "A", "U", "T", "H", "_", "S", "O", "C", "K", "=", "/", "t", "m", "p", "/", "a", "g", "e", "n", "t">>,
      <<"L", "A", "N", "G", "=", "C", "=", "D">> }

\* the position of the first c in s, 0 if there is none
IndexByte(s, c) ==
    IF \E i \in 1..Len(s) : s[i] = c
    THEN CHOOSE i \in 1..Len(s) : s[i] = c /\ \A j \in 1..(i - 1) : s[j] # c
    ELSE 0

\* strings.Cut(s, sep)
Cut(s, sep) ==
    LET i == IndexByte(s, sep) IN
    IF i = 0
    THEN [before |-> s, after |-> <<>>, ok |-> FALSE]
    ELSE [before |-> SubSeq(s, 1, i - 1), after |-> SubSeq(s, i + 1, Len(s)), ok |-> TRUE]

\* the lookup map after the first n entries of the environment
RECURSIVE Lookup(_, _)
Lookup(environment, n) ==
    IF n = 0 THEN [k \in {} |-> <<>>]
    ELSE LET m == Lookup(environment, n - 1)
             c == Cut(environment[n], "=")
         IN IF c.ok
            THEN [k \in DOMAIN m \cup {c.before} |-> IF k = c.before THEN c.after ELSE m[k]]
            ELSE m

\* value, ok := lookup[key]
MapGet(m, key) ==
    IF key \in DOMAIN m THEN [value |-> m[key], ok |-> TRUE]
    ELSE [value |-> <<>>, ok |-> FALSE]

\* the flags the flag set defines; all of them take a value
Formal == {sEnv, sVolume, sDockerfile, sNetwork}

SetPrepend(slice, value) == <<value>> \o slice

\* stringSlice.Set
Set(slice, value) == Append(slice, value)

Parsed(kind, args, name, value) ==
    [kind |-> kind, args |-> args, name |-> name, value |-> value]

\* flag.FlagSet.parseOne on the remaining arguments a: "seen" with the flag
\* and its value, "stop" at the end of the flags, or "error"
ParseOne(a) ==
    IF Len(a) = 0 THEN Parsed("stop", a, <<>>, <<>>)
    ELSE LET s == a[1] IN
    IF Len(s) < 2 \/ s[1] # "-" THEN Parsed("stop", a, <<>>, <<>>)
    ELSE LET numMinuses == IF s[2] = "-" THEN 2 ELSE 1 IN
    IF numMinuses = 2 /\ Len(s) = 2 THEN Parsed("stop", Tail(a), <<>>, <<>>)
    ELSE LET arg == SubSeq(s, numMinuses + 1, Len(s)) IN
    IF Len(arg) = 0 \/ arg[1] = "-" \/ arg[1] = "="
    THEN Parsed("error", a, <<>>, <<>>)
    ELSE LET rest == Tail(a)
             c == Cut(arg, "=")
         IN IF c.before \notin Formal THEN Parsed("error", rest, c.before, <<>>)
            ELSE IF c.ok THEN Parsed("seen", rest, c.before, c.after)
            ELSE IF Len(rest) > 0 THEN Parsed("seen", Tail(rest), c.before, rest[1])
            ELSE Parsed("error", rest, c.before, <<>>)

\* fmt.Sprintf("<key>=%s", value)
KeyValue(key, value) == key \o <<"=">> \o value

\* fs.Parse: parseOne saw a flag and set its value
ParseFlag ==
    /\ cpc = "parse"
    /\ LET p == ParseOne(fsArgs) IN
         /\ p.kind = "seen"
         /\ fsArgs' = p.args
         /\ additionalEnv' = IF p.name = sEnv THEN Set(additionalEnv, p.value) ELSE additionalEnv
         /\ volumes' = IF p.name = sVolume THEN Set(volumes, p.value) ELSE volumes
         /\ dockerfilePath' = IF p.name = sDockerfile THEN p.value ELSE dockerfilePath
         /\ network' = IF p.name = sNetwork THEN p.value ELSE network
    /\ UNCHANGED <<cargs, cenv, cpc, config>>
    /\ UNCHANGED notConfig

\* fs.Parse: parseOne reached the end of the flags
ParseStop ==
    /\ cpc = "parse"
    /\ LET p == ParseOne(fsArgs) IN
         /\ p.kind = "stop"
         /\ fsArgs' = p.args
    /\ cpc' = "build"
    /\ UNCHANGED <<cargs, cenv, additionalEnv, volumes, dockerfilePath, network, config>>
    /\ UNCHANGED notConfig

\* fs.Parse: parseOne failed; Parse returns the error, which is ignored
ParseError ==
    /\ cpc = "parse"
    /\ LET p == ParseOne(fsArgs) IN
         /\ p.kind = "error"
         /\ fsArgs' = p.args
    /\ cpc' = "build"
    /\ UNCHANGED <<cargs, cenv, additionalEnv, volumes, dockerfilePath, network, config>>
    /\ UNCHANGED notConfig

DefaultWhenEmpty(got) == ~got.ok \/ got.value = <<>>

\* if !ok { value = <default> }
UseDefault(got) == ~got.ok

\* the rest of ParseConfig: the environment, the mounts and the Config
BuildConfig ==
    /\ cpc = "build"
    /\ LET lookup == Lookup(cenv, Len(cenv))
           term == MapGet(lookup, sTERM)
           colorterm == MapGet(lookup, sCOLORTERM)
           apiKey == MapGet(lookup, sAPIKEY)
           env == <<KeyValue(sTERM, IF UseDefault(term) THEN sXterm256color ELSE term.value),
                    KeyValue(sCOLORTERM,
                             IF UseDefault(colorterm) THEN sTruecolor ELSE colorterm.value),
                    KeyValue(sAPIKEY, apiKey.value),
                    sSSHAuthSock>> \o additionalEnv
       IN config' = [Args |-> fsArgs,
                     Env |-> env,
                     Volumes |-> <<sDockerSockVolume, sSSHAuthSockVolume>> \o volumes,
                     DockerfilePath |-> dockerfilePath,
                     Network |-> network]
    /\ cpc' = "done"
    /\ UNCHANGED <<cargs, cenv, fsArgs, additionalEnv, volumes, dockerfilePath, network>>
    /\ UNCHANGED notConfig

\* the environments os.Environ() returns: no key is defined twice
NoDuplicateKeys(environment) ==
    \A i, j \in 1..Len(environment) :
        (Cut(environment[i], "=").ok /\ Cut(environment[j], "=").ok
         /\ Cut(environment[i], "=").before = Cut(environment[j], "=").before) => i = j

StartConfig(args, environment) ==
    /\ cargs = args
    /\ cenv = environment
    /\ cpc = "parse"
    /\ fsArgs = args
    /\ additionalEnv = <<>>
    /\ volumes = <<>>
    /\ dockerfilePath = <<>>
    /\ network = sDefault
    /\ config = <<>>

\* every command line up to MaxArgs arguments, in two environments
InitConfigArgs ==
    \E args \in SeqsUpTo(ArgChoices, MaxArgs) :
    \E environment \in {<<>>, <<<<"T", "E", "R", "M", "=", "x", "t", "e", "r", "m">>>>} :
        StartConfig(args, environment)

\* every environment up to MaxEnv entries, with three command lines
InitConfigEnv ==
    \E environment \in {e \in SeqsUpTo(EnvChoices, MaxEnv) : NoDuplicateKeys(e)} :
    \E args \in {<<>>, <<<<"-", "-", "e", "n", "v">>, <<"K", "=", "V">>, <<"c", "m", "d">>>>, <<<<"-", "-", "r", "m">>>>} :
        StartConfig(args, environment)

NextConfig ==
    \/ ParseFlag
    \/ ParseStop
    \/ ParseError
    \/ BuildConfig

InitSpecConfig ==
    InitLedger /\ InitRun /\ IdleArchive /\ IdleBuild /\ InitConfigArgs /\ IdleSession

SpecConfig == InitSpecConfig /\ [][NextConfig]_vars

InitSpecConfigEnv ==
    InitLedger /\ InitRun /\ IdleArchive /\ IdleBuild /\ InitConfigEnv /\ IdleSession

SpecConfigEnv == InitSpecConfigEnv /\ [][NextConfig]_vars


\* --------------------------------------------------------- internal.Session
\* the argument of rand.Int64N in GenerateSession
SessionIDLimit == 10000

Int64NInclusive(n) == 0..n

\* rand.Int64N(n): a number in [0, n)
Int64N(n) == 0..(n - 1)

\* fmt.Sprintf("contagent-%d", s.id)
SessionIDOf(id) == <<"c", "o", "n", "t", "a", "g", "e", "n", "t", "-">> \o Decimal(id)

\* fmt.Sprintf("contagent/%d", s.id)
BranchOf(id) == <<"c", "o", "n", "t", "a", "g", "e", "n", "t", "/">> \o Decimal(id)

\* GenerateSession()
GenerateSession ==
    /\ sid = -1
    /\ sid' \in Int64N(SessionIDLimit)
    /\ UNCHANGED <<snames, sbranches>>
    /\ UNCHANGED notSession

\* s.ID() and s.String()
SessionID ==
    /\ sid # -1
    /\ snames' = snames \cup {SessionIDOf(sid)}
    /\ UNCHANGED <<sid, sbranches>>
    /\ UNCHANGED notSession

\* s.Branch()
SessionBranch ==
    /\ sid # -1
    /\ sbranches' = sbranches \cup {BranchOf(sid)}
    /\ UNCHANGED <<sid, snames>>
    /\ UNCHANGED notSession

NextSession ==
    \/ GenerateSession
    \/ SessionID
    \/ SessionBranch

InitSpecSession ==
    InitLedger /\ InitRun /\ IdleArchive /\ IdleBuild /\ IdleConfig /\ IdleSession

SpecSession == InitSpecSession /\ [][NextSession]_vars


\* ------------------------------------- several processes on the same engine
Sessions == 1..NumSessions

\* ids that rand.Int64N gives to the sessions
DrawnIds == {7, 8}

\* a process before run has drawn its session
NewProcess == [pc |-> "GenerateSession", id |-> -1, cid |-> 0, ctx |-> "active",
               signaled |-> FALSE, funcs |-> <<>>, invoked |-> <<>>,
               err |-> NoError]

\* the engine refuses a name that a container it holds already has
NameInUse(cs, name) == \E i \in 1..Len(cs) : cs[i].name = name /\ cs[i].state # "removed"

\* ContainerCreate(ctx, {Name: string(sessionID), ...})
ContainerCreate(cs, c, name) ==
    IF c = "canceled" THEN {"canceled"}
    ELSE IF NameInUse(cs, name) THEN {"name conflict"}
    ELSE {"ok", "engine"}

RegistersAlways(o) == TRUE

\* run registers the force-remove only below "if err != nil { return ... }"
Registers(o) == o = "ok"

\* what happens to the container with this ID: the zero ID names none
OnContainer(cs, cid, state) ==
    IF cid \in 1..Len(cs) THEN [cs EXCEPT ![cid].state = state] ELSE cs

SessionStep(s, r) ==
    /\ sessions' = [sessions EXCEPT ![s] = r]
    /\ UNCHANGED notSessions

\* session := internal.GenerateSession()
SessGenerate(s) ==
    /\ sessions[s].pc = "GenerateSession"
    /\ \E id \in DrawnIds \cap Int64N(SessionIDLimit) :
         SessionStep(s, [sessions[s] EXCEPT !.id = id, !.pc = "NewServer"])
    /\ UNCHANGED engine

\* git.NewServer, docker.NewDefaultClient and client.BuildImage with the
\* entries run registers for them, or the return of run when the image
\* cannot be built
SessSetup(s) ==
    /\ sessions[s].pc = "NewServer"
    /\ \E o \in {"ok", "BuildImage"} :
         LET server == AddFuncs(<<>>, cleanupFunc("git-server", "remote.Close"))
             client == AddFuncs(server, cleanupFunc("docker-client", "client.Close"))
         IN SessionStep(s, [sessions[s] EXCEPT
                !.funcs = client,
                !.err = IF o = "ok" THEN NoError ELSE Wrap(o, "engine"),
                !.pc = IF o = "ok" THEN "CreateContainer" ELSE "return"])
    /\ UNCHANGED engine

\* client.CreateContainer(ctx, session.ID(), ...) and
\* cleanupMgr.Add("container", func() error { return container.ForceRemove(ctx) })
SessCreateContainer(s) ==
    /\ sessions[s].pc = "CreateContainer"
    /\ \E o \in ContainerCreate(engine, sessions[s].ctx, SessionIDOf(sessions[s].id)) :
         /\ engine' = IF o = "ok"
                      THEN Append(engine, [name |-> SessionIDOf(sessions[s].id),
                                           state |-> "created"])
                      ELSE engine
         /\ SessionStep(s, [sessions[s] EXCEPT
                !.cid = IF o = "ok" THEN Len(engine) + 1 ELSE 0,
                !.funcs = IF Registers(o)
                          THEN AddFuncs(@, cleanupFunc("container", "container.ForceRemove"))
                          ELSE @,
                !.err = IF o = "ok" THEN NoError ELSE Wrap("CreateContainer", o),
                !.pc = IF o = "ok" THEN "Start" ELSE "return"])

\* container.Start(ctx): ContainerStart(ctx, c.ID)
SessStart(s) ==
    /\ sessions[s].pc = "Start"
    /\ \E o \in EngineOutcomes(sessions[s].ctx) :
         /\ engine' = IF o = "ok" THEN OnContainer(engine, sessions[s].cid, "running")
                      ELSE engine
         /\ SessionStep(s, [sessions[s] EXCEPT
                !.err = IF o = "ok" THEN NoError ELSE Wrap("Start", o),
                !.pc = IF o = "ok" THEN "Wait" ELSE "return"])

\* the command of a container ends
SessContainerExit ==
    /\ \E i \in 1..Len(engine) :
         /\ engine[i].state = "running"
         /\ engine' = OnContainer(engine, i, "exited")
    /\ UNCHANGED sessions
    /\ UNCHANGED notSessions

\* SIGINT or SIGTERM to a process that works with the engine
SessSignal(s) ==
    /\ sessions[s].pc \in {"CreateContainer", "Start", "Wait"}
    /\ ~sessions[s].signaled
    /\ SessionStep(s, [sessions[s] EXCEPT !.signaled = TRUE])
    /\ UNCHANGED engine

\* go func() { <-sigChan; cancel() }()
SessListener(s) ==
    /\ sessions[s].pc # "done"
    /\ sessions[s].signaled
    /\ sessions[s].ctx = "active"
    /\ SessionStep(s, [sessions[s] EXCEPT !.ctx = "canceled"])
    /\ UNCHANGED engine

\* container.Wait, case status := <-wait.Result
SessWaitResult(s) ==
    /\ sessions[s].pc = "Wait"
    /\ engine[sessions[s].cid].state = "exited"
    /\ SessionStep(s, [sessions[s] EXCEPT !.pc = "return"])
    /\ UNCHANGED engine

\* container.Wait, case err := <-wait.Error: the wait ends with the context
SessWaitError(s) ==
    /\ sessions[s].pc = "Wait"
    /\ sessions[s].ctx = "canceled"
    /\ SessionStep(s, [sessions[s] EXCEPT !.pc = "return",
                                          !.err = Wrap("Wait", "canceled")])
    /\ UNCHANGED engine

\* container.Wait, case <-sigChan: ContainerStop(ctx, c.ID, ...), return nil
SessWaitSignal(s) ==
    /\ sessions[s].pc = "Wait"
    /\ sessions[s].signaled
    /\ \E o \in EngineOutcomes(sessions[s].ctx) :
         engine' = IF o = "ok" /\ engine[sessions[s].cid].state = "running"
                   THEN OnContainer(engine, sessions[s].cid, "exited")
                   ELSE engine
    /\ SessionStep(s, [sessions[s] EXCEPT !.pc = "return"])

\* run returns: the deferred cancel() runs first
SessCancel(s) ==
    /\ sessions[s].pc = "return"
    /\ SessionStep(s, [sessions[s] EXCEPT !.ctx = "canceled", !.pc = "Execute"])
    /\ UNCHANGED engine

\* the deferred cleanupMgr.Execute(): every cleanup.fn() in the order of
\* m.funcs, for the container's entry ContainerRemove(ctx, c.ID, {Force:
\* true}); then run returns and the process ends
SessExecute(s) ==
    /\ sessions[s].pc = "Execute"
    /\ LET iter == RangeFuncs(sessions[s].funcs)
       IN /\ IF \E k \in 1..Len(iter) : iter[k].fn = "container.ForceRemove"
             THEN \E o \in EngineOutcomes(sessions[s].ctx) :
                    engine' = IF o = "ok"
                              THEN OnContainer(engine, sessions[s].cid, "removed")
                              ELSE engine
             ELSE UNCHANGED engine
          /\ SessionStep(s, [sessions[s] EXCEPT
                 !.invoked = [k \in 1..Len(iter) |-> iter[k].name],
                 !.pc = "done"])

InitSessions ==
    /\ sid = -1
    /\ snames = {}
    /\ sbranches = {}
    /\ engine = <<>>
    /\ sessions = [s \in Sessions |-> NewProcess]

NextSessions ==
    \/ \E s \in Sessions : SessGenerate(s)
    \/ \E s \in Sessions : SessSetup(s)
    \/ \E s \in Sessions : SessCreateContainer(s)
    \/ \E s \in Sessions : SessStart(s)
    \/ SessContainerExit
    \/ \E s \in Sessions : SessSignal(s)
    \/ \E s \in Sessions : SessListener(s)
    \/ \E s \in Sessions : SessWaitResult(s)
    \/ \E s \in Sessions : SessWaitError(s)
    \/ \E s \in Sessions : SessWaitSignal(s)
    \/ \E s \in Sessions : SessCancel(s)
    \/ \E s \in Sessions : SessExecute(s)

InitSpecSessions ==
    InitLedger /\ InitRun /\ IdleArchive /\ IdleBuild /\ IdleConfig /\ InitSessions

SpecSessions == InitSpecSessions /\ [][NextSessions]_vars


\* ------------------------------------------------------------ properties
Range(s) == {s[i] : i \in 1..Len(s)}

\* the order in which run's release actions are to be called at teardown
TeardownOrder == <<"archive", "container", "docker-client", "git-server">>

Registered(n) == n \in Range(pushed)

\* goroutine t has called every entry of its Execute and still holds the lock
AtLoopEnd(t) == task[t].pc = "Execute_loop" /\ task[t].idx > Len(task[t].iter)

IsError(e) == e.fn = "error"

\* C1: once run has returned, no container of this run exists on the engine
C1_NoContainerAfterRun ==
    pc = "done" => container \in {"none", "removed"}

\* C2: once run has returned, the loopback listener is closed
C2_ListenerClosedAfterRun ==
    pc = "done" => listener # "open"

\* C3: once run has returned, the host terminal is not in raw mode
C3_TerminalNotRawAfterRun ==
    pc = "done" => ~stdinRaw /\ ~stdoutRaw

C5_StepOrder ==
    /\ IsPrefix(began, StepOrder)
    /\ "NewDefaultClient" \in Range(began) => Registered("git-server")
    /\ "BuildImage" \in Range(began) => Registered("docker-client")
    /\ "CreateArchive" \in Range(began) => Registered("container")
    /\ "CopyTo" \in Range(began) => Registered("archive")
    /\ "Start" \in Range(began) => copied
    /\ container \in {"running", "exited"} => copied
    /\ "Attach" \in Range(began) => container \in {"running", "exited", "removed"}
    /\ (stdinRaw \/ conn # "none") => container \in {"running", "exited", "removed"}
    /\ "Wait" \in Range(began) => copyOut # "none"

C5_Witness ==
    /\ pc = "done"
    /\ retErr = NoError
    /\ began = StepOrder

C7_ExecuteLIFO ==
    \A t \in Callers :
        (AtLoopEnd(t) /\ execDone = 0) => invoked = Reverse(pushed)

C7_Witness ==
    \E t \in Callers :
        /\ AtLoopEnd(t)
        /\ execDone = 0
        /\ invoked = <<"3", "2", "1">>

\* C8: a release action that returns an error is logged and the loop goes on:
\* every entry after it in the iteration is still called, in order
C8_ExecuteContinuesOnError ==
    \A t \in Callers :
        (AtLoopEnd(t) /\ execDone = 0) =>
            /\ Len(invoked) = Len(task[t].iter)
            /\ \A i \in 1..Len(task[t].iter) :
                 IsError(task[t].iter[i]) =>
                     \A j \in i..Len(task[t].iter) : invoked[j] = task[t].iter[j].name
            /\ logged = Names(SelectSeq(task[t].iter, IsError))

C8_Witness ==
    \E t \in Callers :
        /\ AtLoopEnd(t)
        /\ execDone = 0
        /\ Len(task[t].iter) = 3
        /\ IsError(task[t].iter[2])
        /\ ~IsError(task[t].iter[3])
        /\ invoked[3] = task[t].iter[3].name

\* C9: once an Execute has returned, no release action is called again
C9_SecondExecuteNoOp ==
    [][execDone >= 1 => invoked' = invoked]_vars

\* C10: the ledger lock is not held while a release action runs
C10_LockFreeDuringRelease ==
    \A t \in Callers : task[t].pc = "Execute_fn" => mu = {}


\* the Add calls of the callers that have returned
AddsInFlight == Cardinality({t \in Callers : task[t].pc \in {"Add_lock", "Add_read", "Add_body"}})

\* C11: whatever the interleaving of the callers' Add calls, the ledger holds
\* exactly the entries of the Add calls that have returned, each once, and the
\* first Execute has called each of them once when its loop ends
C11_AddSerialized ==
    /\ Len(funcs) = pushCalls - AddsInFlight
    /\ \A i, j \in 1..Len(funcs) : funcs[i].name = funcs[j].name => i = j
    /\ \A t \in Callers :
         (AtLoopEnd(t) /\ execDone = 0) =>
             \A i \in 1..Len(funcs) : Occurrences(invoked, funcs[i].name) = 1

C11_Witness ==
    \E t \in Callers :
        /\ AtLoopEnd(t)
        /\ execDone = 0
        /\ Len(funcs) = 3
        /\ pushed \in {<<"2", "1", "3">>, <<"2", "3", "1">>}


\* C12: a signal raised while Wait is blocked in its select is never returned
\* by run as an error, whatever the order in which run's listener, Wait's
\* signal channel and the engine's wait channels act
C12_SignalNotAnError ==
    sigInWait => retErr # Wrap("Wait", "canceled")

\* C13: whenever Wait returns because the session context was cancelled, a
\* ContainerStop request has been issued for the container
C13_StopOnCancel ==
    (waitTaken = "error" /\ failure = <<"Wait", "canceled">>) => stopRequests >= 1

C15_NotARepository ==
    failure = <<"NewServer", "not a git repository">> =>
        /\ listener = "none"
        /\ container = "none"
        /\ began = <<"Getwd", "NewServer">>
        /\ retErr = Wrap("NewServer", "not a git repository")

C15_Witness ==
    /\ pc = "done"
    /\ failure = <<"NewServer", "not a git repository">>
    /\ retErr = Wrap("NewServer", "not a git repository")


\* the entries of the snapshot that lie under app/.git
GitEntries == {i \in 1..Len(entries) : 
                 /\ Len(entries[i].name.parts) >= 2
                 /\ entries[i].name.parts[2] = ".git"}

EntryNamed(parts) == {i \in 1..Len(entries) : entries[i].name.parts = parts}

\* C16: every entry of a snapshot has a relative path that starts with app/,
\* is written as a directory or a regular file, and does not come from a
\* symbolic link
C16_EntriesUnderApp ==
    \A i \in 1..Len(entries) :
        LET e == entries[i] IN
        /\ ~e.name.abs
        /\ Len(e.name.parts) >= 1
        /\ e.name.parts[1] = "app"
        /\ (Len(e.name.parts) >= 2 \/ e.slash)
        /\ e.typeflag \in {"dir", "reg"}
        /\ e.kind # "symlink"

C16_Witness ==
    /\ apc = "closed"
    /\ \E i \in 1..Len(repo.git) : repo.git[i].kind = "symlink"
    /\ \E i \in 1..Len(repo.index) : repo.index[i].kind = "symlink"
    /\ \E i \in 1..Len(repo.index) : repo.index[i].kind = "dir"
    /\ EntryNamed(<<"app", "src", "main.go">>) # {}
    /\ EntryNamed(<<"app", ".git", "config">>) # {}

\* C17: in the .git directory of a snapshot, origin is the only remote and has
\* the supplied URL, HEAD is the supplied branch and user.name/user.email are
\* the supplied values; the app/.git entries are written only after the
\* rewriting commands have completed
C17_ControlDirectory ==
    /\ \A i \in EntryNamed(<<"app", ".git", "config">>) :
         /\ entries[i].content.remotes = [n \in {"origin"} |-> Remote]
         /\ entries[i].content.email = GitUserEmail
         /\ entries[i].content.name = GitUserName
    /\ \A i \in EntryNamed(<<"app", ".git", "HEAD">>) :
         entries[i].content = Branch
    /\ GitEntries # {} =>
         {"remote remove", "remote add", "config user.email", "config user.name",
          "checkout -b"} \subseteq tmp.done


\* record i of the response body carries a nonzero error code
HasErrorCode(i) ==
    /\ ~records[i].malformed
    /\ "errorDetail.code" \in records[i].keys
    /\ records[i].code # 0

\* the stream fragments of the first n records
Fragments(n) ==
    [i \in 1..n |-> IF "stream" \in records[i].keys THEN records[i].stream ELSE ""]

ErrorRecords == {i \in 1..Len(records) : HasErrorCode(i)}
BadRecords == {i \in 1..Len(records) : records[i].malformed}
Min(S) == CHOOSE i \in S : \A j \in S : i <= j

\* the first record that carries an error code or does not decode
FirstStop ==
    IF ErrorRecords \cup BadRecords = {} THEN Len(records) + 1
    ELSE Min(ErrorRecords \cup BadRecords)

\* BuildImage found the context cancelled before it processed a record
CancelSeen == cancelAt >= 0 /\ cancelAt < FirstStop /\ cancelAt < Len(records)

FlagLike(s) == Len(s) >= 2 /\ s[1] = "-"

\* a flag-like argument without its dashes
FlagBody(s) == IF s[2] = "-" THEN SubSeq(s, 3, Len(s)) ELSE SubSeq(s, 2, Len(s))

Scanned(cmd, env, vol, defined) ==
    [cmd |-> cmd, env |-> env, vol |-> vol, defined |-> defined]

\* a command line read from argument i on: the --env and --volume values in
\* order, the command vector from the first positional argument (or after --)
\* onward, and whether every flag before it is one the program defines
RECURSIVE Scan(_, _, _, _)
Scan(args, i, envs, vols) ==
    IF i > Len(args) THEN Scanned(<<>>, envs, vols, TRUE)
    ELSE LET a == args[i] IN
    IF a = <<"-", "-">> THEN Scanned(SubSeq(args, i + 1, Len(args)), envs, vols, TRUE)
    ELSE IF ~FlagLike(a) THEN Scanned(SubSeq(args, i, Len(args)), envs, vols, TRUE)
    ELSE LET c == Cut(FlagBody(a), "=") IN
    IF c.before \notin Formal
    THEN [Scan(args, i + 1, envs, vols) EXCEPT !.defined = FALSE]
    ELSE IF ~c.ok /\ i = Len(args) THEN Scanned(<<>>, envs, vols, TRUE)
    ELSE LET value == IF c.ok THEN c.after ELSE args[i + 1]
             next == IF c.ok THEN i + 1 ELSE i + 2
         IN Scan(args, next,
                 IF c.before = sEnv THEN Append(envs, value) ELSE envs,
                 IF c.before = sVolume THEN Append(vols, value) ELSE vols)

\* the Config has the command vector, the environment and the mounts that
\* the scan r of the command line gives
ConfigIs(r) ==
    /\ config.Args = r.cmd
    /\ Len(config.Env) = 4 + Len(r.env)
    /\ Cut(config.Env[1], "=").before = sTERM
    /\ Cut(config.Env[2], "=").before = sCOLORTERM
    /\ Cut(config.Env[3], "=").before = sAPIKEY
    /\ Cut(config.Env[4], "=").before = <<"S", "S", "H", "_", "A", "U", "T", "H", "_", "S", "O", "C", "K">>
    /\ SubSeq(config.Env, 5, Len(config.Env)) = r.env
    /\ config.Volumes = <<sDockerSockVolume, sSSHAuthSockVolume>> \o r.vol

\* C19 as stated: for any argument list the command vector is the arguments
\* from the first positional argument onward, the environment is the four
\* fixed variables followed by the --env values, the mounts are the two
\* default mounts followed by the --volume values
C19_AsStated ==
    cpc = "done" => ConfigIs(Scan(cargs, 1, <<>>, <<>>))

\* C19 (amended): the same, for argument lists in which every flag before the
\* first positional argument is one of --env, --volume, --dockerfile, --network
C19_ParseConfig ==
    (cpc = "done" /\ Scan(cargs, 1, <<>>, <<>>).defined) =>
        ConfigIs(Scan(cargs, 1, <<>>, <<>>))

C19_Witness ==
    /\ cpc = "done"
    /\ cargs = <<<<"-", "-", "e", "n", "v">>, <<"K", "=", "V">>, <<"c", "m", "d">>, <<"-", "-", "r", "m">>>>
    /\ config.Args = <<<<"c", "m", "d">>, <<"-", "-", "r", "m">>>>
    /\ config.Env[5] = <<"K", "=", "V">>
    /\ Len(config.Volumes) = 2

\* the host environment defines key
Defined(key) == \E i \in 1..Len(cenv) : Cut(cenv[i], "=").ok /\ Cut(cenv[i], "=").before = key

\* the value the host environment gives key
HostValue(key) ==
    Cut(cenv[CHOOSE i \in 1..Len(cenv) :
                 Cut(cenv[i], "=").ok /\ Cut(cenv[i], "=").before = key], "=").after

\* C20: TERM and COLORTERM carry the host's values when the host defines them
\* and the defaults xterm-256color and truecolor when it does not,
\* SSH_AUTH_SOCK is always the fixed path, and ANTHROPIC_API_KEY is forwarded
\* with the host's value, empty when the host does not define it
C20_EnvironmentDefaults ==
    cpc = "done" =>
        /\ config.Env[1] = KeyValue(sTERM, IF Defined(sTERM) THEN HostValue(sTERM)
                                           ELSE sXterm256color)
        /\ config.Env[2] = KeyValue(sCOLORTERM, IF Defined(sCOLORTERM) THEN HostValue(sCOLORTERM)
                                                ELSE sTruecolor)
        /\ config.Env[3] = KeyValue(sAPIKEY, IF Defined(sAPIKEY) THEN HostValue(sAPIKEY)
                                             ELSE <<>>)
        /\ config.Env[4] = sSSHAuthSock

C20_Witness ==
    /\ cpc = "done"
    /\ cenv = <<<<"S", "S", "H", "_", "A", "U", "T", "H", "_", "S", "O", "C", "K", "=", "/", "t", "m", "p", "/", "a", "g", "e", "n", "t">>,
                <<"T", "E", "R", "M", "=">>>>
    /\ config.Env[1] = <<"T", "E", "R", "M", "=">>
    /\ config.Env[2] = <<"C", "O", "L", "O", "R", "T", "E", "R", "M", "=", "t", "r", "u", "e", "c", "o", "l", "o", "r">>
    /\ config.Env[3] = <<"A", "N", "T", "H", "R", "O", "P", "I", "C", "_", "A", "P", "I", "_", "K", "E", "Y", "=">>
    /\ config.Env[4] = sSSHAuthSock


\* str is prefix followed by the decimal digits of d
Named(str, prefix, d) ==
    /\ Len(str) > Len(prefix)
    /\ SubSeq(str, 1, Len(prefix)) = prefix
    /\ ParseDecimal(SubSeq(str, Len(prefix) + 1, Len(str))) = d

\* C21: a generated session has an id d with 0 <= d < 10000; every container
\* name it gives is contagent-<d> and every branch name contagent/<d>, for
\* that d, so neither changes during the session
C21_SessionNames ==
    sid # -1 =>
        /\ 0 <= sid /\ sid < 10000
        /\ \A n \in snames : Named(n, <<"c", "o", "n", "t", "a", "g", "e", "n", "t", "-">>, sid)
        /\ \A b \in sbranches : Named(b, <<"c", "o", "n", "t", "a", "g", "e", "n", "t", "/">>, sid)
        /\ Cardinality(snames) <= 1
        /\ Cardinality(sbranches) <= 1

C21_Witness ==
    /\ sid = 9999
    /\ snames = {<<"c", "o", "n", "t", "a", "g", "e", "n", "t", "-", "9", "9", "9", "9">>}
    /\ sbranches = {<<"c", "o", "n", "t", "a", "g", "e", "n", "t", "/", "9", "9", "9", "9">>}


\* C22: when Wait takes the signal case it issues exactly one ContainerStop
\* request, carrying the configured stop timeout, before it returns and before
\* the ledger calls the container's force-remove; whether the request fails
\* or not Wait returns nil, and a failure only adds a warning to the sink
C22_StopOnSignal ==
    /\ stopRequests = Len(stopLog)
    /\ waitTaken # "signal" => stopRequests = 0
    /\ waitTaken = "signal" =>
        /\ stopLog = <<[timeout |-> DefaultStopTimeout, removeInvoked |-> FALSE]>>
        /\ retErr = NoError
        /\ pc \in {"return", "Execute", "done"}
        /\ \/ sink = <<SignalMessage>>
           \/ \E o \in {"engine", "canceled"} :
                sink = <<SignalMessage, StopWarning(o)>>
        /\ pc = "done" => RemoveInvoked

C22_Witness ==
    /\ pc = "done"
    /\ waitTaken = "signal"
    /\ sink = <<SignalMessage, StopWarning("canceled")>>
    /\ RemoveInvoked
    /\ retErr = NoError

CopyTasks == {"stdin", "output"}

\* the copy tasks whose function has returned
TasksEnded == {t \in CopyTasks : copyLog[t].err # "none"}

\* copy task t returns in this step
Ends(t) == copyLog[t].err = "none" /\ copyLog'[t].err # "none"

\* C23: the function inside the once-only restore runs at most once across
\* the two copy tasks; it has run, and neither stream is left raw by it, as
\* soon as one copy task has returned; the call made by the other task
\* changes neither terminal mode
C23_RestoreOnce ==
    /\ [](/\ restoreRuns <= 1
          /\ restoreCalls = Cardinality(TasksEnded)
          /\ restoreCalls >= 1 => (restoreRuns = 1 /\ restored))
    /\ [][restoreRuns = 1 =>
            /\ restoreRuns' = 1
            /\ restoreCalls' # restoreCalls =>
                 UNCHANGED <<stdinRaw, stdoutRaw, restored>>]_vars

C23_Witness ==
    /\ copyIn = "done"
    /\ copyOut = "done"
    /\ restoreCalls = 2
    /\ restoreRuns = 1

\* C24: a copy task that returns after the session context was cancelled
\* warns nothing; one whose io.Copy met the end of its source warns nothing; a
\* task warns exactly when its copy failed and the context is not cancelled;
\* every task returns nil, and its return changes neither run's position nor
\* the error run returns
C24_CopyErrors ==
    /\ [](/\ \A t \in TasksEnded :
               /\ copyLog[t].ret = "nil"
               /\ copyLog[t].warned => copyLog[t].err \notin {"nil", "EOF", "canceled"}
          /\ failure # <<>> => failure[2] # "io")
    /\ [][\A t \in CopyTasks : Ends(t) =>
            /\ copyLog'[t].warned <=> (copyLog'[t].err # "nil" /\ ctx # "canceled")
            /\ warnings' = IF copyLog'[t].warned
                           THEN Append(warnings, CopyWarning(t, copyLog'[t].err))
                           ELSE warnings
            /\ UNCHANGED <<pc, retErr, failure>>]_vars

C24_Witness ==
    /\ ctx = "canceled"
    /\ copyLog.stdin = [err |-> "io", warned |-> TRUE, ret |-> "nil"]
    /\ copyLog.output = [err |-> "io", warned |-> FALSE, ret |-> "nil"]
    /\ retErr = NoError

\* C25: once the session context is cancelled, both copy tasks of the bridge
\* end, with no input on host stdin and without the container ending its
\* stream
C25_CopyTasksEnd ==
    ctx = "canceled" ~> (copyIn # "running" /\ copyOut # "running")

\* C26: the retry goroutine exists exactly when Monitor's first Resize failed;
\* it makes at most TTYRetries attempts, the k-th after a timer of k times the
\* base delay, none after an attempt that succeeded, and Fatalf is called,
\* once, exactly when TTYRetries attempts were made and all of them failed
C26_ResizeRetries ==
    /\ retryPc # "none" <=> monitorErr \notin {"none", "nil"}
    /\ retryPc = "none" => attempts = <<>> /\ fatal = <<>>
    /\ Len(attempts) <= TTYRetries
    /\ \A i \in 1..Len(attempts) :
         /\ attempts[i].k = i
         /\ attempts[i].after = i * RetryDelay
         /\ i < Len(attempts) => attempts[i].err # "nil"
    /\ fatal # <<>> <=>
         /\ Len(attempts) = TTYRetries
         /\ \A i \in 1..Len(attempts) : attempts[i].err # "nil"
    /\ fatal # <<>> => fatal = <<FatalMessage(attempts[TTYRetries].err)>>

C26_Witness ==
    /\ pc = "exit"
    /\ Len(attempts) = TTYRetries
    /\ fatal = <<FatalMessage("engine")>>

\* the initial ContainerResize of Attach, or the first Resize of Monitor, failed
InitialResizeFailed ==
    \/ monitorErr \notin {"none", "nil"}
    \/ \E o \in {"engine", "canceled"} : warnings # <<>> /\ warnings[1] = ResizeWarning(o)

Produced == apc \in {"closed", "failed"}

\* the steps of the closure that run git or copy files
RewriteSteps == {"copyDirectory", "checkout HEAD", "remote remove", "remote add",
                 "config user.email", "config user.name", "checkout -b"}

\* the steps of the closure that write to the tar writer or list the files
WriteSteps == {"app header", "add .git", "tracked"}

RemoveFailed == tmp.removeErr.kind \in {"ExitError", "other"}

\* C31: when "git remote remove origin" fails, the closure goes on to
\* "remote add" exactly when the error is an exit with code 2; with any other
\* failure the closure returns the error of that step, the archive has no
\* entry, and the consumer cannot read a clean end of the stream
C31_RemoteRemoveTolerated ==
    RemoveFailed =>
        /\ apc # "remote remove"
        /\ ("remote remove" \in tmp.done) <=> (tmp.removeErr = ExitError(2))
        /\ tmp.removeErr # ExitError(2) =>
             /\ apc = "failed"
             /\ aerr = "remote remove"
             /\ entries = <<>>
             /\ pw # "closed"
             /\ reader # "EOF"
             /\ reader = "error" => readErr = ArchiveError("remote remove")

C31_Witness ==
    /\ tmp.removeErr = ExitError(2)
    /\ "origin" \in DOMAIN tmp.remotes
    /\ reader = "EOF"
    /\ Len(entries) >= 2

\* C32: run leaves its body only through the deferred cancel(), which runs
\* before the deferred Execute: while the ledger executes the context is
\* cancelled, every release action is invoked under a cancelled context, and
\* the force-remove, which is given that context, removes no container
C32_CancelBeforeExecute ==
    /\ [](pc = "Execute" => ctx = "canceled")
    /\ [][(pc = "return" /\ pc' # pc) => (pc' = "Execute" /\ ctx' = "canceled"
                                          /\ invoked' = invoked)]_vars
    /\ [][invoked' # invoked => (ctx = "canceled" /\ ctx' = "canceled")]_vars
    /\ [][pc = "Execute" => (container' = "removed" <=> container = "removed")]_vars

C32_Witness ==
    /\ pc = "done"
    /\ signals = 0
    /\ ctx = "canceled"
    /\ retErr = NoError
    /\ RemoveInvoked
    /\ Len(invoked) = 4
    /\ container # "removed"

\* C33: when the process has been ended by os.Exit, the cleanup ledger has
\* been executed: the git server's listener is closed, the container is not
\* left running and neither terminal is in raw mode
C33_CleanupBeforeExit ==
    pc = "exit" =>
        /\ execDone >= 1
        /\ Len(invoked) = Len(pushed)
        /\ listener # "open"
        /\ ~serving
        /\ container # "running"
        /\ ~stdinRaw
        /\ ~stdoutRaw

\* C34: Fatalf is called only while the context is active, and an attempt
\* that failed with the context's cancellation is followed by no fatal message
C34_NoFatalAfterCancel ==
    /\ [][fatal' # fatal => ctx = "active"]_vars
    /\ [](retryErr = "canceled" => fatal = <<>>)

\* C35: when both copy tasks of Attach have ended, neither host stdin nor
\* host stdout is in raw mode
C35_NotRawAfterCopyTasks ==
    (copyIn = "done" /\ copyOut = "done") => (~stdinRaw /\ ~stdoutRaw)

\* Attach has returned an error to run
AttachFailed == failure # <<>> /\ failure[1] = "Attach"

\* C36: when Attach has returned an error, host stdin is not in raw mode, no
\* copy task is running and the attached connection is not open
C36_AttachErrorReleases ==
    AttachFailed =>
        /\ ~stdinRaw
        /\ copyIn # "running"
        /\ copyOut # "running"
        /\ conn # "open"

\* NewServer has returned an error to run
NewServerFailed == failure # <<>> /\ failure[1] = "NewServer"

\* C37: when NewServer has returned an error, the listener it opened is not
\* open and no goroutine serves on it
C37_NewServerErrorReleases ==
    NewServerFailed => (listener # "open" /\ ~serving)

\* C38: after a production that succeeded, the pipe's write end is closed
\* only when the tar writer has been closed, its padding and trailer written,
\* so a consumer that reads io.EOF has received them
C38_TrailerBeforeEOF ==
    /\ (apc = "closed" /\ pw = "closed") => tw = "closed"
    /\ reader = "EOF" => tw = "closed"

\* session s could not create its container
CreateFailed(s) == sessions[s].err.step = "CreateContainer"

\* session s holds a container of the engine
Holds(s, i) == sessions[s].cid = i

\* C39: two sessions with the same id never both hold a container; a session
\* whose name is taken gets an error from CreateContainer and registers no
\* force-remove; a session that holds no container has no such entry and calls
\* none, and every change of a container's state is the container's own exit or
\* a step of the session that holds it
C39_CollisionLeavesOther ==
    /\ [](\A s, t \in Sessions :
            (s # t /\ sessions[s].id = sessions[t].id /\ sessions[s].cid # 0)
                => sessions[t].cid = 0)
    /\ [](\A s \in Sessions :
            sessions[s].cid = 0 =>
                /\ \A k \in 1..Len(sessions[s].funcs) : sessions[s].funcs[k].name # "container"
                /\ \A k \in 1..Len(sessions[s].invoked) : sessions[s].invoked[k] # "container")
    /\ [][\A s \in Sessions :
            (/\ sessions[s].pc = "CreateContainer"
             /\ sessions'[s].pc # "CreateContainer"
             /\ NameInUse(engine, SessionIDOf(sessions[s].id)))
                => (CreateFailed(s)' /\ sessions'[s].pc = "return"
                    /\ sessions'[s].funcs = sessions[s].funcs /\ engine' = engine)]_vars
    /\ [][\A i \in 1..Len(engine) :
            engine'[i] # engine[i] =>
                \/ sessions' = sessions /\ engine[i].state = "running"
                                        /\ engine'[i].state = "exited"
                \/ \E s \in Sessions : sessions'[s] # sessions[s] /\ Holds(s, i)]_vars

C39_Witness ==
    \E s, t \in Sessions :
        /\ s # t
        /\ sessions[s].id = sessions[t].id
        /\ sessions[t].err = Wrap("CreateContainer", "name conflict")
        /\ sessions[t].pc = "done"
        /\ sessions[t].invoked = <<"docker-client", "git-server">>
        /\ sessions[s].pc = "Wait"
        /\ engine[sessions[s].cid].state = "running"

====
